---------------------------- MODULE Spec2Model ----------------------------
(* A model of libbgp's core: the IPv6 RIB (src/src/bgp-rib6.cc), the UPDATE *)
(* message with its ASN-width transforms and its codec                      *)
(* (src/src/protocol/bgp-update-message.cc) and the path attributes         *)
(* (src/unnamed/part_000, src/src/bgp-path-attrib.h).                       *)
EXTENDS Integers, Sequences, FiniteSets, TLC

VARIABLES
    rib,         \* BgpRib6::rib, the vector of entries
    update_id,   \* BgpRib6::update_id, the update-group counter
    lastop,      \* the RIB call that ran last: its arguments and return value
    msg,         \* a BgpUpdateMessage: use_4b_asn, path_attribute, routes, error
    msg0,        \* the message as it was constructed
    ops,         \* the methods called on msg so far, with their return values
    cpc,         \* codec run: position ("init", "written", "parsed")
    cmsg,        \* codec run: the message that is written
    cbuf,        \* codec run: the caller's buffer
    cret,        \* codec run: return value of write
    csz,         \* codec run: the buf_sz handed to write
    chigh,       \* codec run: one past the highest offset write has stored to (0: none)
    cparsed,     \* codec run: the message filled in by parse, and parse's return
    tpc,         \* threads: position of each thread inside its RIB call
    tcall,       \* threads: the call each thread is making
    tfound,      \* threads: what each thread's scan of the shared rib found
    mtx,         \* threads: owner of BgpRib6::mutex (0: free)
    crib,        \* threads: the shared rib
    pin,         \* parse run: the bytes handed to a parser, the session's ASN width
    pop,         \* parse run: the parser that ran ("none": not yet)
    pout,        \* parse run: what the parser has left
    bus,         \* route event bus: the events published, oldest first
    fsm,         \* sessions: the BgpFsm of each session (state, timers, what it last sent)
    now,         \* sessions: the host clock's seconds
    subs,        \* route event bus: the subscribed receivers, in subscription order
    delivered    \* route event bus: the handler calls publish has made, oldest first

ribVars == <<rib, update_id, lastop>>
msgVars == <<msg, msg0, ops>>
codecVars == <<cpc, cmsg, cbuf, cret, csz, chigh, cparsed>>
concVars == <<tpc, tcall, tfound, mtx, crib>>
parseVars == <<pin, pop, pout>>
busVars == <<bus>>
fsmVars == <<fsm, now>>
revVars == <<subs, delivered>>
vars == <<rib, update_id, lastop, msg, msg0, ops, cpc, cmsg, cbuf, cret, csz, chigh, cparsed,
          tpc, tcall, tfound, mtx, crib, pin, pop, pout, bus, fsm, now, subs, delivered>>

(***************************************************************************)
(* Bounds of the model.                                                    *)
(***************************************************************************)
MaxUpdateId == 2
MaxAsns == 2
MaxOps == 2
MaxAttrs == 4

(***************************************************************************)
(* Sequence helpers.                                                       *)
(***************************************************************************)
Range(s) == {s[i] : i \in 1..Len(s)}

RemoveAt(s, i) == SubSeq(s, 1, i - 1) \o SubSeq(s, i + 1, Len(s))

SeqsUpTo(S, n) == UNION {[1..k -> S] : k \in 0..n}

Min(a, b) == IF a < b THEN a ELSE b
Max(a, b) == IF a > b THEN a ELSE b

(***************************************************************************)
(* Path attributes: src/src/bgp-path-attrib.h.                             *)
(***************************************************************************)
ORIGIN == 1
AS_PATH == 2
NEXT_HOP == 3
MULTI_EXIT_DISC == 4
LOCAL_PREF == 5
ATOMIC_AGGREGATE == 6
AGGREATOR == 7
COMMUNITY == 8
AS4_PATH == 17
AS4_AGGREGATOR == 18

IGP == 0
EGP == 1
INCOMPLETE == 2

AS_SET == 1
AS_SEQUENCE == 2

AS_TRANS == 23456

\* One record shape for every attribute class: the header fields of
\* BgpPathAttrib and the value fields of the subclasses (unused ones at rest).
Attr(tc, opt, trans, is4b, segs, val, addr) ==
    [type_code |-> tc, optional |-> opt, transitive |-> trans, partial |-> FALSE,
     extended |-> FALSE, is_4b |-> is4b, segs |-> segs, val |-> val, addr |-> addr,
     value |-> <<>>]

BgpAsPathSegment(is_4b, type, value) == [is_4b |-> is_4b, type |-> type, value |-> value]

BgpPathAttribOrigin(origin) == Attr(ORIGIN, FALSE, TRUE, FALSE, <<>>, origin, 0)
BgpPathAttribAsPath(is_4b, segs) == Attr(AS_PATH, FALSE, TRUE, is_4b, segs, 0, 0)
BgpPathAttribNexthop(next_hop) == Attr(NEXT_HOP, FALSE, TRUE, FALSE, <<>>, 0, next_hop)
BgpPathAttribMed(med) == Attr(MULTI_EXIT_DISC, TRUE, FALSE, FALSE, <<>>, med, 0)
BgpPathAttribLocalPref(lp) == Attr(LOCAL_PREF, FALSE, TRUE, FALSE, <<>>, lp, 0)
BgpPathAttribAggregator(is_4b, addr, asn) == Attr(AGGREATOR, TRUE, TRUE, is_4b, <<>>, asn, addr)
BgpPathAttribAs4Path(segs) == Attr(AS4_PATH, TRUE, TRUE, TRUE, segs, 0, 0)
BgpPathAttribAs4Aggregator(addr, asn4) == Attr(AS4_AGGREGATOR, TRUE, TRUE, TRUE, <<>>, asn4, addr)

(***************************************************************************)
(* The IPv6 RIB: src/src/bgp-rib6.cc.                                      *)
(***************************************************************************)
\* Prefix6 values [prefix, length]: the default route and a more specific one.
R0 == [prefix |-> 0, length |-> 0]
R1 == [prefix |-> 2, length |-> 1]
Routes == {R0, R1}

\* Route lists handed to the batch inserts: empty, one route, two routes, and
\* one route twice.
RouteLists == {<<>>, <<R1>>, <<R0, R1>>, <<R0, R0>>}

Srcs == {0, 1}
Weights == {0, 1}
\* Weight arguments of the local inserts.
LocalWeights == {1}
NullPtr == -1
\* <<nexthop_global, nexthop_linklocal>> arguments (addresses as numbers).
NexthopPairs == {<<1, NullPtr>>, <<1, 3>>}

\* Attribute lists a peer's UPDATE carries into the RIB.
PeerAttribs ==
    { <<BgpPathAttribOrigin(IGP),
        BgpPathAttribAsPath(TRUE, <<BgpAsPathSegment(TRUE, AS_SEQUENCE, <<100>>)>>)>> }

BgpRib6Entry(r, src, nexthop_global, nexthop_linklocal, attribs) ==
    [route |-> r, src_router_id |-> src, nexthop_global |-> nexthop_global,
     nexthop_linklocal |-> IF nexthop_linklocal # NullPtr THEN nexthop_linklocal ELSE 0,
     attribs |-> attribs, weight |-> 0, update_id |-> 0]

HasAttr(attribs, tc) == \E i \in 1..Len(attribs) : attribs[i].type_code = tc

GetAttr(attribs, tc) ==
    attribs[CHOOSE i \in 1..Len(attribs) :
              attribs[i].type_code = tc /\ \A j \in 1..(i - 1) : attribs[j].type_code # tc]

\* Values the tie-break reads from an entry's attributes.
LocalPrefOf(e) == IF HasAttr(e.attribs, LOCAL_PREF) THEN GetAttr(e.attribs, LOCAL_PREF).val ELSE 100
MedOf(e) == IF HasAttr(e.attribs, MULTI_EXIT_DISC) THEN GetAttr(e.attribs, MULTI_EXIT_DISC).val ELSE 0
OriginOf(e) == IF HasAttr(e.attribs, ORIGIN) THEN GetAttr(e.attribs, ORIGIN).val ELSE 0

RECURSIVE SegsLen(_)
SegsLen(segs) ==
    IF segs = <<>> THEN 0
    ELSE (IF segs[1].type = AS_SET THEN 1 ELSE Len(segs[1].value)) + SegsLen(Tail(segs))

AsPathLenOf(e) == IF HasAttr(e.attribs, AS_PATH) THEN SegsLen(GetAttr(e.attribs, AS_PATH).segs) ELSE 0

FirstAsOf(e) ==
    IF HasAttr(e.attribs, AS_PATH) /\ GetAttr(e.attribs, AS_PATH).segs # <<>>
       /\ GetAttr(e.attribs, AS_PATH).segs[1].value # <<>>
    THEN GetAttr(e.attribs, AS_PATH).segs[1].value[1] ELSE 0

\* BgpRib6Entry::operator> : the best-path tie-break (first differing wins).
EntryGreater(a, b) ==
    IF a.weight # b.weight THEN a.weight > b.weight
    ELSE IF LocalPrefOf(a) # LocalPrefOf(b) THEN LocalPrefOf(a) > LocalPrefOf(b)
    ELSE IF AsPathLenOf(a) # AsPathLenOf(b) THEN AsPathLenOf(a) < AsPathLenOf(b)
    ELSE IF OriginOf(a) # OriginOf(b) THEN OriginOf(a) < OriginOf(b)
    ELSE IF FirstAsOf(a) = FirstAsOf(b) /\ MedOf(a) # MedOf(b) THEN MedOf(a) < MedOf(b)
    ELSE a.src_router_id < b.src_router_id

\* Index of the first entry the scan of insertPriv/withdraw stops at (0: none).
FindEntry(r, src_router_id, route) ==
    IF \E i \in 1..Len(r) : r[i].route = route /\ r[i].src_router_id = src_router_id
    THEN CHOOSE i \in 1..Len(r) :
            /\ r[i].route = route /\ r[i].src_router_id = src_router_id
            /\ \A j \in 1..(i - 1) : ~(r[j].route = route /\ r[j].src_router_id = src_router_id)
    ELSE 0

\* insertPriv with the comparison of line 56 left out: an existing entry is
\* always replaced.
insertPrivAlwaysReplace(r, uid, src_router_id, route, nexthop_global, nexthop_linklocal, attribs, weight) ==
    LET new_entry == [BgpRib6Entry(route, src_router_id, nexthop_global, nexthop_linklocal, attribs)
                        EXCEPT !.update_id = uid, !.weight = weight]
        i == FindEntry(r, src_router_id, route)
    IN  IF i # 0
        THEN [rib |-> Append(RemoveAt(r, i), new_entry), ret |-> TRUE]
        ELSE [rib |-> Append(r, new_entry), ret |-> TRUE]

\* BgpRib6::insertPriv on rib r with counter uid: the new rib and the return value.
insertPriv(r, uid, src_router_id, route, nexthop_global, nexthop_linklocal, attribs, weight) ==
    LET new_entry == [BgpRib6Entry(route, src_router_id, nexthop_global, nexthop_linklocal, attribs)
                        EXCEPT !.update_id = uid, !.weight = weight]
        i == FindEntry(r, src_router_id, route)
    IN  IF i # 0
        THEN IF EntryGreater(new_entry, r[i])
             THEN [rib |-> Append(RemoveAt(r, i), new_entry), ret |-> TRUE]
             ELSE [rib |-> r, ret |-> FALSE]
        ELSE [rib |-> Append(r, new_entry), ret |-> TRUE]

\* BgpRib6::insert(src_router_id, route, ...): single insert from a peer.
insertPeer(r, uid, src_router_id, route, nexthop_global, nexthop_linklocal, attribs, weight) ==
    LET p == insertPriv(r, uid, src_router_id, route, nexthop_global, nexthop_linklocal, attribs, weight)
    IN  [rib |-> p.rib, update_id |-> IF p.ret THEN uid + 1 ELSE uid, ret |-> p.ret]

RECURSIVE insertPeerLoop(_, _, _, _, _, _, _, _, _)
insertPeerLoop(r, uid, src_router_id, routes, nexthop_global, nexthop_linklocal, attrib, weight, inserted) ==
    IF routes = <<>> THEN [rib |-> r, ret |-> inserted]
    ELSE LET p == insertPriv(r, uid, src_router_id, routes[1], nexthop_linklocal, nexthop_global, attrib, weight)
         IN  insertPeerLoop(p.rib, uid, src_router_id, Tail(routes), nexthop_global, nexthop_linklocal,
                            attrib, weight, IF p.ret THEN inserted + 1 ELSE inserted)

\* The batch insert with the counter advanced once more per inserted route.
insertPeerBatchCountsRoutes(r, uid, src_router_id, routes, nexthop_global, nexthop_linklocal, attrib, weight) ==
    LET p == insertPeerLoop(r, uid, src_router_id, routes, nexthop_global, nexthop_linklocal, attrib, weight, 0)
    IN  [rib |-> p.rib, update_id |-> uid + 1 + p.ret, ret |-> p.ret]

\* BgpRib6::insert(src_router_id, routes, ...): batch insert from a peer.
insertPeerBatch(r, uid, src_router_id, routes, nexthop_global, nexthop_linklocal, attrib, weight) ==
    LET p == insertPeerLoop(r, uid, src_router_id, routes, nexthop_global, nexthop_linklocal, attrib, weight, 0)
    IN  [rib |-> p.rib, update_id |-> uid + 1, ret |-> p.ret]

\* The synthesized attributes with the AS_PATH built as a 2-byte one.
LocalAttribsTwoByte == <<BgpPathAttribOrigin(IGP), BgpPathAttribAsPath(FALSE, <<>>)>>

\* The attributes both local inserts synthesize: ORIGIN = IGP, empty 4-byte AS_PATH.
LocalAttribs == <<BgpPathAttribOrigin(IGP), BgpPathAttribAsPath(TRUE, <<>>)>>

RECURSIVE LocalScan(_, _, _, _)
\* The scan of the single local insert: "NULL" when the route exists, else
\* the update_id to use (the last matching local entry's, or the counter).
LocalScan(r, new_entry, i, use_update_id) ==
    IF i > Len(r) THEN use_update_id
    ELSE IF r[i].src_router_id = 0 /\ r[i].route = new_entry.route THEN NullPtr
    ELSE IF r[i].src_router_id = 0 /\ r[i].nexthop_global = new_entry.nexthop_global
             /\ r[i].nexthop_linklocal = new_entry.nexthop_linklocal
         THEN LocalScan(r, new_entry, i + 1, r[i].update_id)
    ELSE LocalScan(r, new_entry, i + 1, use_update_id)

\* The single local insert with the counter advanced on every stored entry.
insertLocalAlwaysAdvances(r, uid, route, nexthop_global, nexthop_linklocal, weight) ==
    LET new_entry == [BgpRib6Entry(route, 0, nexthop_global, nexthop_linklocal, LocalAttribs)
                        EXCEPT !.weight = weight]
        use_update_id == LocalScan(r, new_entry, 1, uid)
    IN  IF use_update_id = NullPtr
        THEN [rib |-> r, update_id |-> uid, ret |-> <<>>]
        ELSE [rib |-> Append(r, [new_entry EXCEPT !.update_id = use_update_id]),
              update_id |-> uid + 1,
              ret |-> <<[new_entry EXCEPT !.update_id = use_update_id]>>]

\* BgpRib6::insert(logger, route, nexthop_global, nexthop_linklocal, weight).
\* ret is <<>> for NULL and <<entry>> for a pointer to the stored entry.
insertLocal(r, uid, route, nexthop_global, nexthop_linklocal, weight) ==
    LET new_entry == [BgpRib6Entry(route, 0, nexthop_global, nexthop_linklocal, LocalAttribs)
                        EXCEPT !.weight = weight]
        use_update_id == LocalScan(r, new_entry, 1, uid)
    IN  IF use_update_id = NullPtr
        THEN [rib |-> r, update_id |-> uid, ret |-> <<>>]
        ELSE [rib |-> Append(r, [new_entry EXCEPT !.update_id = use_update_id]),
              update_id |-> IF use_update_id = uid THEN uid + 1 ELSE uid,
              ret |-> <<[new_entry EXCEPT !.update_id = use_update_id]>>]

RECURSIVE insertLocalLoopNoCheck(_, _, _, _, _, _, _)
\* The loop of the batch local insert without the entry_exist scan of lines 207-215.
insertLocalLoopNoCheck(r, uid, routes, nexthop_global, nexthop_linklocal, weight, inserted) ==
    IF routes = <<>> THEN [rib |-> r, ret |-> inserted]
    ELSE LET new_entry == [BgpRib6Entry(routes[1], 0, nexthop_global, nexthop_linklocal, LocalAttribs)
                             EXCEPT !.update_id = uid, !.weight = weight]
         IN  insertLocalLoopNoCheck(Append(r, new_entry), uid, Tail(routes), nexthop_global,
                                    nexthop_linklocal, weight, Append(inserted, new_entry))

RECURSIVE insertLocalLoop(_, _, _, _, _, _, _)
\* The loop over routes of the batch local insert (lines 204-222).
insertLocalLoop(r, uid, routes, nexthop_global, nexthop_linklocal, weight, inserted) ==
    IF routes = <<>> THEN [rib |-> r, ret |-> inserted]
    ELSE LET entry_exist == \E i \in 1..Len(r) : r[i].src_router_id = 0 /\ r[i].route = routes[1]
             new_entry == [BgpRib6Entry(routes[1], 0, nexthop_global, nexthop_linklocal, LocalAttribs)
                             EXCEPT !.update_id = uid, !.weight = weight]
         IN  IF entry_exist
             THEN insertLocalLoop(r, uid, Tail(routes), nexthop_global, nexthop_linklocal, weight, inserted)
             ELSE insertLocalLoop(Append(r, new_entry), uid, Tail(routes), nexthop_global,
                                  nexthop_linklocal, weight, Append(inserted, new_entry))

\* BgpRib6::insert(logger, routes, nexthop_global, nexthop_linklocal, weight).
insertLocalBatch(r, uid, routes, nexthop_global, nexthop_linklocal, weight) ==
    LET p == insertLocalLoop(r, uid, routes, nexthop_global, nexthop_linklocal, weight, <<>>)
    IN  [rib |-> p.rib, update_id |-> uid + 1, ret |-> p.ret]

\* withdraw matching on the route alone, whatever the source.
withdrawAnySource(r, src_router_id, route) ==
    LET found == {i \in 1..Len(r) : r[i].route = route}
    IN  IF found # {} THEN [rib |-> RemoveAt(r, CHOOSE i \in found : \A j \in found : i <= j), ret |-> TRUE] ELSE [rib |-> r, ret |-> FALSE]

\* BgpRib6::withdraw(src_router_id, route).
withdraw(r, src_router_id, route) ==
    LET i == FindEntry(r, src_router_id, route)
    IN  IF i # 0 THEN [rib |-> RemoveAt(r, i), ret |-> TRUE] ELSE [rib |-> r, ret |-> FALSE]

RECURSIVE discardLoopStepsOn(_, _, _, _)
\* The loop of discard with the iterator stepped on after an erase as well.
discardLoopStepsOn(r, src_router_id, entry, dropped_routes) ==
    IF entry > Len(r) THEN [rib |-> r, ret |-> dropped_routes]
    ELSE IF r[entry].src_router_id = src_router_id
         THEN discardLoopStepsOn(RemoveAt(r, entry), src_router_id, entry + 1,
                                 Append(dropped_routes, r[entry].route))
         ELSE discardLoopStepsOn(r, src_router_id, entry + 1, dropped_routes)

RECURSIVE discardLoop(_, _, _, _)
\* The loop of discard: the iterator stays on the slot it erased (the vector's
\* elements move down), and steps on only past an entry it keeps.
discardLoop(r, src_router_id, entry, dropped_routes) ==
    IF entry > Len(r) THEN [rib |-> r, ret |-> dropped_routes]
    ELSE IF r[entry].src_router_id = src_router_id
         THEN discardLoop(RemoveAt(r, entry), src_router_id, entry, Append(dropped_routes, r[entry].route))
         ELSE discardLoop(r, src_router_id, entry + 1, dropped_routes)

\* BgpRib6::discard(src_router_id).
discard(r, src_router_id) == discardLoop(r, src_router_id, 1, <<>>)

\* Addresses are AddrBits wide; a route's prefix holds all AddrBits bits.
AddrBits == 2
Addrs == {1, 3}

\* Prefix6::includes(dest): dest agrees with the prefix on its first length bits.
Includes(route, dest) ==
    dest \div (2 ^ (AddrBits - route.length)) = route.prefix \div (2 ^ (AddrBits - route.length))

\* selectEntry(a, b), b being <<>> for NULL or <<entry>>: the longer prefix,
\* and between equal lengths the entry the tie-break prefers.
selectEntry(a, b) ==
    IF b = <<>> THEN <<a>>
    ELSE IF a.route.length # b[1].route.length
         THEN (IF a.route.length > b[1].route.length THEN <<a>> ELSE b)
    ELSE IF EntryGreater(a, b[1]) THEN <<a>> ELSE b

RECURSIVE lookupLoopKeepFirst(_, _, _, _)
\* The loop of lookup with selectEntry left out: the first match is kept.
lookupLoopKeepFirst(r, dest, i, selected_entry) ==
    IF i > Len(r) THEN selected_entry
    ELSE IF Includes(r[i].route, dest) /\ selected_entry = <<>>
         THEN lookupLoopKeepFirst(r, dest, i + 1, <<r[i]>>)
         ELSE lookupLoopKeepFirst(r, dest, i + 1, selected_entry)

RECURSIVE lookupLoop(_, _, _, _)
\* The loop of lines 393-397 from entry i on.
lookupLoop(r, dest, i, selected_entry) ==
    IF i > Len(r) THEN selected_entry
    ELSE IF Includes(r[i].route, dest)
         THEN lookupLoop(r, dest, i + 1, selectEntry(r[i], selected_entry))
         ELSE lookupLoop(r, dest, i + 1, selected_entry)

\* BgpRib6::lookup(dest): <<>> for NULL, <<entry>> for the selected entry.
lookup(r, dest) == lookupLoop(r, dest, 1, <<>>)

RECURSIVE lookupScopedLoopAnySource(_, _, _, _, _)
\* The loop of the scoped lookup without the source test of line 418.
lookupScopedLoopAnySource(r, src_router_id, dest, i, selected_entry) ==
    IF i > Len(r) THEN selected_entry
    ELSE IF Includes(r[i].route, dest)
         THEN lookupScopedLoopAnySource(r, src_router_id, dest, i + 1, selectEntry(r[i], selected_entry))
         ELSE lookupScopedLoopAnySource(r, src_router_id, dest, i + 1, selected_entry)

RECURSIVE lookupScopedLoop(_, _, _, _, _)
\* The loop of lines 417-422 from entry i on.
lookupScopedLoop(r, src_router_id, dest, i, selected_entry) ==
    IF i > Len(r) THEN selected_entry
    ELSE IF r[i].src_router_id # src_router_id
         THEN lookupScopedLoop(r, src_router_id, dest, i + 1, selected_entry)
    ELSE IF Includes(r[i].route, dest)
         THEN lookupScopedLoop(r, src_router_id, dest, i + 1, selectEntry(r[i], selected_entry))
         ELSE lookupScopedLoop(r, src_router_id, dest, i + 1, selected_entry)

\* BgpRib6::lookup(src_router_id, dest).
lookupScoped(r, src_router_id, dest) == lookupScopedLoop(r, src_router_id, dest, 1, <<>>)

NoOp == [op |-> "none", src |-> 0, routes |-> <<>>, arg |-> <<>>, ret |-> FALSE, found |-> 0]

InitRib == rib = <<>> /\ update_id = 0 /\ lastop = NoOp

\* arg: <<nexthop_global, nexthop_linklocal, attribs, weight>> of an insert.
\* found: the index the call's first scan stopped at (0: no entry matched).
Called(op, src, routes, arg, ret) ==
    [op |-> op, src |-> src, routes |-> routes, arg |-> arg, ret |-> ret,
     found |-> IF routes = <<>> THEN 0 ELSE FindEntry(rib, src, routes[1])]

InsertPeer ==
    \E src \in Srcs, route \in Routes, nh \in NexthopPairs, attribs \in PeerAttribs, weight \in Weights :
        LET p == insertPeer(rib, update_id, src, route, nh[1], nh[2], attribs, weight)
        IN  /\ update_id < MaxUpdateId
            /\ rib' = p.rib
            /\ update_id' = p.update_id
            /\ lastop' = Called("insert", src, <<route>>, <<nh[1], nh[2], attribs, weight>>, p.ret)

\* With a NULL nexthop_linklocal and a route to insert, line 304 hands NULL to
\* the entry constructor as nexthop_global and memcpy reads through it: the
\* process dies there, so that call has no successor state.
InsertPeerBatch ==
    \E src \in Srcs, routes \in RouteLists, nh \in NexthopPairs,
       attribs \in PeerAttribs, weight \in Weights :
        LET p == insertPeerBatch(rib, update_id, src, routes, nh[1], nh[2], attribs, weight)
        IN  /\ update_id < MaxUpdateId
            /\ (nh[2] # NullPtr \/ routes = <<>>)
            /\ rib' = p.rib
            /\ update_id' = p.update_id
            /\ lastop' = Called("insert_batch", src, routes, <<nh[1], nh[2], attribs, weight>>, p.ret)

InsertLocal ==
    \E route \in Routes, nh \in NexthopPairs, weight \in LocalWeights :
        LET p == insertLocal(rib, update_id, route, nh[1], nh[2], weight)
        IN  /\ update_id < MaxUpdateId
            /\ rib' = p.rib
            /\ update_id' = p.update_id
            /\ lastop' = Called("insert_local", 0, <<route>>, <<nh[1], nh[2], LocalAttribs, weight>>, p.ret)

InsertLocalBatch ==
    \E routes \in RouteLists, nh \in NexthopPairs, weight \in LocalWeights :
        LET p == insertLocalBatch(rib, update_id, routes, nh[1], nh[2], weight)
        IN  /\ update_id < MaxUpdateId
            /\ rib' = p.rib
            /\ update_id' = p.update_id
            /\ lastop' = Called("insert_local_batch", 0, routes, <<nh[1], nh[2], LocalAttribs, weight>>, p.ret)

\* A route-add event: the routes and the attributes they share.
Route6AddEvent(routes, attribs) == [type |-> "add", routes |-> routes, attribs |-> attribs]

\* RouteEventBus::publish(publisher, event): the event reaches the bus's
\* subscribers, who see the RIB as it is when publish is called.
publish(b, publisher, event, r) == Append(b, [publisher |-> publisher, event |-> event, rib |-> r])

\* BgpRib6::insert(logger, route, nexthop_global, nexthop_linklocal, rev_bus,
\* weight): the local insert, then the add event for the stored entry.
insertLocalBus(r, uid, b, route, nexthop_global, nexthop_linklocal, weight) ==
    LET p == insertLocal(r, uid, route, nexthop_global, nexthop_linklocal, weight)
    IN  [rib |-> p.rib, update_id |-> p.update_id, ret |-> p.ret,
         bus |-> IF p.ret # <<>>
                 THEN publish(b, NullPtr, Route6AddEvent(<<p.ret[1].route>>, p.ret[1].attribs), p.rib)
                 ELSE b]

\* The batch local insert with a bus, its event carrying the first stored
\* route only.
insertLocalBatchBusFirstRoute(r, uid, b, routes, nexthop_global, nexthop_linklocal, weight) ==
    LET p == insertLocalBatch(r, uid, routes, nexthop_global, nexthop_linklocal, weight)
    IN  [rib |-> p.rib, update_id |-> p.update_id, ret |-> p.ret,
         bus |-> IF Len(p.ret) > 0
                 THEN publish(b, NullPtr, Route6AddEvent(<<p.ret[1].route>>, p.ret[1].attribs), p.rib)
                 ELSE b]

\* BgpRib6::insert(logger, routes, nexthop_global, nexthop_linklocal, rev_bus,
\* weight): the batch local insert, then one add event for what it stored.
insertLocalBatchBus(r, uid, b, routes, nexthop_global, nexthop_linklocal, weight) ==
    LET p == insertLocalBatch(r, uid, routes, nexthop_global, nexthop_linklocal, weight)
    IN  [rib |-> p.rib, update_id |-> p.update_id, ret |-> p.ret,
         bus |-> IF Len(p.ret) > 0
                 THEN publish(b, NullPtr,
                              Route6AddEvent([k \in 1..Len(p.ret) |-> p.ret[k].route], p.ret[1].attribs),
                              p.rib)
                 ELSE b]

InitBus == bus = <<>>

InsertLocalBus ==
    \E route \in Routes, nh \in NexthopPairs, weight \in LocalWeights :
        LET p == insertLocalBus(rib, update_id, bus, route, nh[1], nh[2], weight)
        IN  /\ update_id < MaxUpdateId
            /\ rib' = p.rib
            /\ update_id' = p.update_id
            /\ bus' = p.bus
            /\ lastop' = Called("insert_local_bus", 0, <<route>>, <<nh[1], nh[2], LocalAttribs, weight>>, p.ret)

InsertLocalBatchBus ==
    \E routes \in RouteLists, nh \in NexthopPairs, weight \in LocalWeights :
        LET p == insertLocalBatchBus(rib, update_id, bus, routes, nh[1], nh[2], weight)
        IN  /\ update_id < MaxUpdateId
            /\ rib' = p.rib
            /\ update_id' = p.update_id
            /\ bus' = p.bus
            /\ lastop' = Called("insert_local_batch_bus", 0, routes, <<nh[1], nh[2], LocalAttribs, weight>>, p.ret)

Withdraw ==
    \E src \in Srcs, route \in Routes :
        LET w == withdraw(rib, src, route)
        IN  /\ rib' = w.rib
            /\ update_id' = update_id
            /\ lastop' = Called("withdraw", src, <<route>>, <<>>, w.ret)

Discard ==
    \E src \in Srcs :
        LET d == discard(rib, src)
        IN  /\ rib' = d.rib
            /\ update_id' = update_id
            /\ lastop' = Called("discard", src, <<>>, <<>>, d.ret)

\* lookup is const: it reads the entries and changes nothing.
Lookup ==
    \E dest \in Addrs :
        /\ UNCHANGED <<rib, update_id>>
        /\ lastop' = [op |-> "lookup", src |-> 0, routes |-> <<>>, arg |-> <<dest>>,
                       ret |-> lookup(rib, dest), found |-> 0]

LookupScopedFrom(sources) ==
    \E src \in sources, dest \in Addrs :
        /\ UNCHANGED <<rib, update_id>>
        /\ lastop' = [op |-> "lookup_scoped", src |-> src, routes |-> <<>>, arg |-> <<dest>>,
                       ret |-> lookupScoped(rib, src, dest), found |-> 0]

LookupScoped == LookupScopedFrom(Srcs)

(***************************************************************************)
(* RIBs of up to MaxEntries entries for one route from three peers, their  *)
(* attributes differing in every criterion of the tie-break: the states    *)
(* single inserts from the peers leave behind, in every order.             *)
(***************************************************************************)
MaxEntries == 3
LookupSrcs == {1, 2, 3}

SeqPath(asns) == BgpPathAttribAsPath(TRUE, <<BgpAsPathSegment(TRUE, AS_SEQUENCE, asns)>>)
SetPath(asns) == BgpPathAttribAsPath(TRUE, <<BgpAsPathSegment(TRUE, AS_SET, asns)>>)

\* <<attribs, weight>> arguments of the inserts.
LookupVariants ==
    { <<<<BgpPathAttribOrigin(IGP), SeqPath(<<1>>), BgpPathAttribMed(50)>>, 0>>,
      <<<<BgpPathAttribOrigin(IGP), SeqPath(<<1>>), BgpPathAttribMed(100)>>, 0>>,
      <<<<BgpPathAttribOrigin(IGP), SeqPath(<<2>>), BgpPathAttribMed(50)>>, 0>>,
      <<<<BgpPathAttribOrigin(IGP), SeqPath(<<1>>), BgpPathAttribMed(50)>>, 1>>,
      <<<<BgpPathAttribOrigin(IGP), SeqPath(<<1>>), BgpPathAttribMed(50), BgpPathAttribLocalPref(200)>>, 0>>,
      <<<<BgpPathAttribOrigin(IGP), SeqPath(<<1, 2>>), BgpPathAttribMed(50)>>, 0>>,
      <<<<BgpPathAttribOrigin(IGP), SetPath(<<1, 2>>), BgpPathAttribMed(50)>>, 0>>,
      <<<<BgpPathAttribOrigin(EGP), SeqPath(<<1>>), BgpPathAttribMed(50)>>, 0>> }

LookupEntries ==
    { [BgpRib6Entry(R0, src, 1, NullPtr, v[1]) EXCEPT !.weight = v[2]] :
        src \in LookupSrcs, v \in LookupVariants }

\* The entries in storage order as successive single inserts number them.
Numbered(r) == [i \in 1..Len(r) |-> [r[i] EXCEPT !.update_id = i - 1]]

LookupRibs ==
    { Numbered(r) : r \in { q \in UNION { [1..n -> LookupEntries] : n \in 0..MaxEntries } :
                              \A i, j \in 1..Len(q) : i # j => ~(q[i].src_router_id = q[j].src_router_id) } }

InitLookup == rib \in LookupRibs /\ update_id = Len(rib) /\ lastop = NoOp

(***************************************************************************)
(* The UPDATE message and its ASN-width transforms:                        *)
(* src/src/protocol/bgp-update-message.cc.                                 *)
(***************************************************************************)
E_UPDATE == 3
E_HEADER == 1
E_LENGTH == 2
E_UNSPEC_UPDATE == 0
E_ATTR_LIST == 1
E_BAD_WELL_KNOWN == 2
E_MISS_WELL_KNOWN == 3
E_ATTR_FLAG == 4
E_ATTR_LEN == 5
E_ORIGIN == 6
E_AS_PATH == 11
E_UNSPEC == 0

NoError == <<0, 0>>

BgpUpdateMessage(use_4b_asn, path_attribute, withdrawn_routes, nlri) ==
    [use_4b_asn |-> use_4b_asn, path_attribute |-> path_attribute,
     withdrawn_routes |-> withdrawn_routes, nlri |-> nlri, err |-> NoError]

hasAttrib(m, type) == \E i \in 1..Len(m.path_attribute) : m.path_attribute[i].type_code = type

\* Index in path_attribute of the attribute getAttrib returns: the first of the type.
getAttribIdx(m, type) ==
    CHOOSE i \in 1..Len(m.path_attribute) :
        /\ m.path_attribute[i].type_code = type
        /\ \A j \in 1..(i - 1) : m.path_attribute[j].type_code # type

getAttrib(m, type) == m.path_attribute[getAttribIdx(m, type)]

\* BgpUpdateMessage::addAttrib without its hasAttrib test.
addAttribNoCheck(m, attrib) == [msg |-> [m EXCEPT !.path_attribute = Append(@, attrib)], ret |-> TRUE]

addAttrib(m, attrib) ==
    IF hasAttrib(m, attrib.type_code) THEN [msg |-> m, ret |-> FALSE]
    ELSE [msg |-> [m EXCEPT !.path_attribute = Append(@, attrib)], ret |-> TRUE]

dropAttrib(m, type) ==
    IF hasAttrib(m, type)
    THEN [msg |-> [m EXCEPT !.path_attribute = RemoveAt(@, getAttribIdx(m, type))], ret |-> TRUE]
    ELSE [msg |-> m, ret |-> FALSE]

updateAttribute(m, attrib) == addAttrib(dropAttrib(m, attrib.type_code).msg, attrib)

\* uint16_t asn = (a uint32_t value): the conversion keeps the low 16 bits.
U16(asn) == asn % 65536

Is4bSeg(seg) == seg.is_4b

\* Lines 155-170: a 2-byte path with no AS4_PATH, each segment re-made 4-byte.
Widen(segs) == [i \in 1..Len(segs) |-> BgpAsPathSegment(TRUE, segs[i].type,
                    [k \in 1..Len(segs[i].value) |-> U16(segs[i].value[k])])]

RECURSIVE FullAsPath(_)
\* Lines 178-190: the ASNs of the AS_SEQUENCE segments of AS4_PATH, in order.
FullAsPath(segs4) ==
    IF segs4 = <<>> THEN <<>>
    ELSE (IF segs4[1].type = AS_SEQUENCE THEN segs4[1].value ELSE <<>>) \o FullAsPath(Tail(segs4))

RECURSIVE Iter4b(_, _)
\* Lines 198-203: the position of the first ASN > 0xffff (Len + 1: end()).
Iter4b(full_as_path, i) ==
    IF i > Len(full_as_path) THEN i
    ELSE IF full_as_path[i] > 65535 THEN i
    ELSE Iter4b(full_as_path, i + 1)

RECURSIVE RestoreSeg(_, _, _, _, _, _)
\* Lines 218-239: one segment's ASNs, with local_iter moving over full_as_path.
RestoreSeg(value, k, full_as_path, has_4b, local_iter, incr_iter) ==
    IF k > Len(value) THEN <<>>
    ELSE LET asn == U16(value[k])
             live == has_4b /\ local_iter # Len(full_as_path) + 1
             hit == live /\ asn = AS_TRANS
             new_asn == IF hit THEN full_as_path[local_iter] ELSE asn
             incr == incr_iter \/ hit
             next_iter == IF live /\ incr THEN local_iter + 1 ELSE local_iter
         IN  <<new_asn>> \o RestoreSeg(value, k + 1, full_as_path, has_4b, next_iter, incr)

\* Lines 207-242: every segment starts again from iter_4b (line 208).
RestoreSegs(segs2, full_as_path) ==
    [i \in 1..Len(segs2) |->
        BgpAsPathSegment(TRUE, segs2[i].type,
            RestoreSeg(segs2[i].value, 1, full_as_path, full_as_path # <<>>,
                       Iter4b(full_as_path, 1), FALSE))]

\* BgpUpdateMessage::restoreAsPath.
restoreAsPath(m) ==
    IF ~hasAttrib(m, AS_PATH) THEN [msg |-> m, ret |-> TRUE]
    ELSE LET path == getAttrib(m, AS_PATH) IN
    IF path.is_4b THEN [msg |-> m, ret |-> TRUE]
    ELSE IF ~hasAttrib(m, AS4_PATH)
    THEN IF \E i \in 1..Len(path.segs) : Is4bSeg(path.segs[i])
         THEN [msg |-> m, ret |-> FALSE]
         ELSE [msg |-> [m EXCEPT !.path_attribute[getAttribIdx(m, AS_PATH)] =
                            [path EXCEPT !.segs = Widen(path.segs), !.is_4b = TRUE]],
               ret |-> TRUE]
    ELSE LET as4_path == getAttrib(m, AS4_PATH) IN
    IF \E i \in 1..Len(as4_path.segs) : ~Is4bSeg(as4_path.segs[i])
    THEN [msg |-> m, ret |-> FALSE]
    ELSE LET full_as_path == FullAsPath(as4_path.segs)
             dropped == dropAttrib(m, AS4_PATH).msg
         IN  IF \E i \in 1..Len(path.segs) : Is4bSeg(path.segs[i])
             THEN [msg |-> dropped, ret |-> FALSE]
             ELSE [msg |-> [dropped EXCEPT !.path_attribute[getAttribIdx(dropped, AS_PATH)] =
                                [path EXCEPT !.segs = RestoreSegs(path.segs, full_as_path),
                                             !.is_4b = TRUE]],
                   ret |-> TRUE]

\* Line 267: uint16_t new_as = asn >= 0xffff ? 23456 : asn.
Narrow(asn) == IF asn >= 65535 THEN AS_TRANS ELSE U16(asn)

\* Lines 259-273: the 2-byte segments made from the 4-byte ones.
NarrowSegs(segs) == [i \in 1..Len(segs) |-> BgpAsPathSegment(FALSE, segs[i].type,
                        [k \in 1..Len(segs[i].value) |-> Narrow(segs[i].value[k])])]

\* BgpUpdateMessage::downgradeAsPath.
downgradeAsPath(m) ==
    IF ~hasAttrib(m, AS_PATH) THEN [msg |-> m, ret |-> TRUE]
    ELSE LET path == getAttrib(m, AS_PATH) IN
    IF ~path.is_4b THEN [msg |-> m, ret |-> TRUE]
    ELSE IF \E i \in 1..Len(path.segs) : ~Is4bSeg(path.segs[i])
    THEN [msg |-> m, ret |-> FALSE]
    ELSE LET updated == updateAttribute(m, BgpPathAttribAs4Path(path.segs)).msg
         IN  [msg |-> [updated EXCEPT !.path_attribute[getAttribIdx(updated, AS_PATH)] =
                          [path EXCEPT !.is_4b = FALSE, !.segs = NarrowSegs(path.segs)]],
              ret |-> TRUE]

\* BgpUpdateMessage::restoreAggregator.
restoreAggregator(m) ==
    IF ~hasAttrib(m, AGGREATOR) THEN [msg |-> m, ret |-> TRUE]
    ELSE LET i == getAttribIdx(m, AGGREATOR)
             marked == [m EXCEPT !.path_attribute[i].is_4b = TRUE]
         IN  IF ~hasAttrib(m, AS4_AGGREGATOR) THEN [msg |-> marked, ret |-> TRUE]
             ELSE LET aggr4 == getAttrib(m, AS4_AGGREGATOR)
                  IN  [msg |-> [marked EXCEPT !.path_attribute[i].addr = aggr4.addr,
                                               !.path_attribute[i].val = aggr4.val],
                       ret |-> TRUE]

\* BgpUpdateMessage::downgradeAggregator.
downgradeAggregator(m) ==
    IF ~hasAttrib(m, AGGREATOR) THEN [msg |-> m, ret |-> TRUE]
    ELSE LET aggr == getAttrib(m, AGGREATOR)
             updated == updateAttribute(m, BgpPathAttribAs4Aggregator(aggr.addr, aggr.val)).msg
             i == getAttribIdx(updated, AGGREATOR)
         IN  [msg |-> [updated EXCEPT !.path_attribute[i].is_4b = FALSE,
                                      !.path_attribute[i].val =
                                          IF aggr.val >= 65535 THEN AS_TRANS ELSE aggr.val],
              ret |-> TRUE]

\* Bit type_code of the 32-bit typecode_bitsmap.
BitOf(bitsmap, type_code) == (bitsmap \div (2 ^ type_code)) % 2

\* Line 365: typecode_bitsmap &= ~(1UL << type_code).
ClearBit(bitsmap, type_code) ==
    IF BitOf(bitsmap, type_code) = 1 THEN bitsmap - 2 ^ type_code ELSE bitsmap

RECURSIVE ValidateLoop(_, _, _)
\* Lines 351-366: TRUE when the loop stops at a type code whose bit is set.
ValidateLoop(attrs, i, typecode_bitsmap) ==
    IF i > Len(attrs) THEN FALSE
    ELSE IF BitOf(typecode_bitsmap, attrs[i].type_code) = 1 THEN TRUE
    ELSE ValidateLoop(attrs, i + 1, ClearBit(typecode_bitsmap, attrs[i].type_code))

\* BgpUpdateMessage::validateAttribs.
validateAttribs(m) ==
    IF ValidateLoop(m.path_attribute, 1, 0)
    THEN [msg |-> [m EXCEPT !.err = <<E_UPDATE, E_ATTR_LIST>>], ret |-> FALSE]
    ELSE IF ~(hasAttrib(m, AS_PATH) /\ hasAttrib(m, NEXT_HOP) /\ hasAttrib(m, ORIGIN))
    THEN [msg |-> [m EXCEPT !.err = <<E_UPDATE, E_MISS_WELL_KNOWN>>], ret |-> FALSE]
    ELSE [msg |-> m, ret |-> TRUE]

(***************************************************************************)
(* Messages the transforms are applied to, and the calls.                  *)
(***************************************************************************)
\* 4-byte ASNs: two that fit 16 bits (one of them 0xffff) and two that do not.
Asns4 == {65000, 65535, 65536, 70000}
\* ASNs of a 2-byte AS_PATH that comes with an AS4_PATH, and of that AS4_PATH.
Asns2 == {65000, AS_TRANS}
Asns4Companion == {65000, 65536, 70000}

RECURSIVE PathsOf(_, _, _)
\* The segment lists with at most n ASNs in all, every segment non-empty.
PathsOf(is_4b, A, n) ==
    {<<>>} \cup
    UNION { { <<BgpAsPathSegment(is_4b, t, v)>> \o rest :
                t \in {AS_SET, AS_SEQUENCE}, v \in [1..k -> A], rest \in PathsOf(is_4b, A, n - k) }
            : k \in 1..n }

\* The list with the width flag of its first segment inverted.
FlipFirst(segs) == [segs EXCEPT ![1].is_4b = ~@]

WellFormed(as_path, rest) ==
    BgpUpdateMessage(TRUE, <<BgpPathAttribOrigin(IGP), as_path, BgpPathAttribNexthop(1)>> \o rest,
                     <<>>, <<>>)

\* A 4-byte AS_PATH and no AS4_PATH.
Msgs4b == { WellFormed(BgpPathAttribAsPath(TRUE, p), <<>>) : p \in PathsOf(TRUE, Asns4, MaxAsns) }

\* A 2-byte AS_PATH, alone or with an AS4_PATH.
Msgs2b ==
    { WellFormed(BgpPathAttribAsPath(FALSE, p2), <<>>) : p2 \in PathsOf(FALSE, Asns2, MaxAsns) }
    \cup { WellFormed(BgpPathAttribAsPath(FALSE, p2), <<BgpPathAttribAs4Path(p4)>>) :
             p2 \in PathsOf(FALSE, Asns2, MaxAsns), p4 \in PathsOf(TRUE, Asns4Companion, MaxAsns) }

\* Messages as a 4-byte session can hold them after parse or addAttrib: a 4-byte
\* AS_PATH beside an AS4_PATH; and segments whose is_4b contradicts the attribute.
MsgsOdd ==
    { WellFormed(BgpPathAttribAsPath(TRUE, p), <<BgpPathAttribAs4Path(p)>>) :
        p \in PathsOf(TRUE, Asns4Companion, MaxAsns) }
    \cup { WellFormed(BgpPathAttribAsPath(FALSE, FlipFirst(p2)), <<BgpPathAttribAs4Path(p4)>>) :
             p2 \in PathsOf(FALSE, Asns2, 1) \ {<<>>}, p4 \in PathsOf(TRUE, Asns4Companion, 1) }
    \cup { WellFormed(BgpPathAttribAsPath(FALSE, p2), <<BgpPathAttribAs4Path(FlipFirst(p4))>>) :
             p2 \in PathsOf(FALSE, Asns2, 1), p4 \in PathsOf(TRUE, Asns4Companion, 1) \ {<<>>} }
    \cup { WellFormed(BgpPathAttribAsPath(FALSE, FlipFirst(p)), <<>>) :
             p \in PathsOf(FALSE, Asns2, 1) \ {<<>>} }
    \cup { WellFormed(BgpPathAttribAsPath(TRUE, FlipFirst(p)), <<>>) :
             p \in PathsOf(TRUE, Asns2, 1) \ {<<>>} }

AggrAsns == {65000, 65535, 65536, 70000}
AggrAddrs == {1, 2}

\* An AGGREGATOR, alone or with an AS4_AGGREGATOR.
MsgsAggr ==
    { WellFormed(BgpPathAttribAsPath(TRUE, <<>>), <<BgpPathAttribAggregator(TRUE, a, n)>>) :
        a \in AggrAddrs, n \in AggrAsns }
    \cup { WellFormed(BgpPathAttribAsPath(FALSE, <<>>),
                      <<BgpPathAttribAggregator(FALSE, a, n), BgpPathAttribAs4Aggregator(a4, n4)>>) :
             a \in AggrAddrs, n \in {65000, AS_TRANS}, a4 \in AggrAddrs, n4 \in AggrAsns }

\* Attribute lists as parse collects them before it validates them:
\* any attributes in any order, repeated or missing.
ListAttrs == {BgpPathAttribOrigin(IGP), BgpPathAttribAsPath(TRUE, <<>>),
              BgpPathAttribNexthop(1), BgpPathAttribMed(0)}

MsgsAnyList == { BgpUpdateMessage(TRUE, l, <<>>, <<>>) : l \in SeqsUpTo(ListAttrs, MaxAttrs) }

InitMsg == msg0 \in Msgs4b \cup Msgs2b \cup MsgsOdd \cup MsgsAggr \cup MsgsAnyList /\ msg = msg0 /\ ops = <<>>

Applied(name, r) ==
    /\ Len(ops) < MaxOps
    /\ msg' = r.msg
    /\ ops' = Append(ops, [op |-> name, ret |-> r.ret])
    /\ msg0' = msg0

DoRestoreAsPath == hasAttrib(msg, AS_PATH) /\ Applied("restoreAsPath", restoreAsPath(msg))

DoDowngradeAsPath == hasAttrib(msg, AS_PATH) /\ Applied("downgradeAsPath", downgradeAsPath(msg))

DoRestoreAggregator == hasAttrib(msg, AGGREATOR) /\ Applied("restoreAggregator", restoreAggregator(msg))

DoDowngradeAggregator == hasAttrib(msg, AGGREATOR) /\ Applied("downgradeAggregator", downgradeAggregator(msg))

\* parse calls validateAttribs once, on the list it has collected.
DoValidateAttribs == ops = <<>> /\ Applied("validateAttribs", validateAttribs(msg))

(***************************************************************************)
(* The attribute list under its editing methods: addAttrib, dropAttrib,    *)
(* updateAttribute, setNextHop and prepend of bgp-update-message.cc, with  *)
(* the AS_PATH and segment prepend of src/unnamed/part_000.                *)
(***************************************************************************)
\* The most ASNs a segment takes: the literal of the prepend and addSeg tests.
MaxSegAsns == 255

setNextHop(m, nexthop) == updateAttribute(m, BgpPathAttribNexthop(nexthop))

\* BgpAsPathSegment2b::prepend and BgpAsPathSegment4b::prepend with no test
\* of the segment's size.
prependSegNoLimit(seg, asn) ==
    [seg |-> [seg EXCEPT !.value = <<IF ~seg.is_4b /\ asn > 65535 THEN AS_TRANS ELSE asn>> \o @],
     ret |-> TRUE]

\* BgpAsPathSegment2b::prepend and BgpAsPathSegment4b::prepend.
prependSeg(seg, asn) ==
    IF Len(seg.value) >= MaxSegAsns THEN [seg |-> seg, ret |-> FALSE]
    ELSE [seg |-> [seg EXCEPT !.value = <<IF ~seg.is_4b /\ asn > 65535 THEN AS_TRANS ELSE asn>> \o @],
          ret |-> TRUE]

\* BgpPathAttribAsPath::addSeg: a new AS_SEQUENCE of one ASN, pushed at the
\* back of as_paths.
addSeg(a, asn) ==
    LET push_asn == IF ~a.is_4b /\ asn > 65535 THEN AS_TRANS ELSE asn IN
    [a EXCEPT !.segs = Append(@, prependSeg(BgpAsPathSegment(a.is_4b, AS_SEQUENCE, <<>>), push_asn).seg)]

\* BgpPathAttribAsPath::prepend.
prependAsPath(a, asn) ==
    IF Len(a.segs) = 0 THEN [attr |-> addSeg(a, asn), ret |-> TRUE]
    ELSE IF a.segs[1].type = AS_SET THEN [attr |-> addSeg(a, asn), ret |-> TRUE]
    ELSE IF a.segs[1].type = AS_SEQUENCE
    THEN IF Len(a.segs[1].value) >= MaxSegAsns THEN [attr |-> addSeg(a, asn), ret |-> TRUE]
         ELSE [attr |-> [a EXCEPT !.segs[1] = prependSeg(@, asn).seg], ret |-> TRUE]
    ELSE [attr |-> a, ret |-> FALSE]

\* BgpPathAttribAs4Path::prepend, declared in bgp-path-attrib.h: the same
\* steps on as4_paths.
prependAs4Path(a, asn) == prependAsPath(a, asn)

\* The 4-byte branch of BgpUpdateMessage::prepend, lines 89-112.
prepend4b(m, asn) ==
    IF hasAttrib(m, AS4_PATH) THEN [msg |-> m, ret |-> FALSE]
    ELSE IF ~hasAttrib(m, AS_PATH)
    THEN [msg |-> [m EXCEPT !.path_attribute =
                      Append(@, prependAsPath(BgpPathAttribAsPath(TRUE, <<>>), asn).attr)],
          ret |-> TRUE]
    ELSE LET i == getAttribIdx(m, AS_PATH)
             r == prependAsPath(m.path_attribute[i], asn)
         IN IF ~m.path_attribute[i].is_4b THEN [msg |-> m, ret |-> FALSE]
            ELSE [msg |-> [m EXCEPT !.path_attribute[i] = r.attr], ret |-> r.ret]

\* The 2-byte branch, lines 113-141: AS_PATH first, then AS4_PATH if there
\* is one; a refusal of the second leaves the first prepended.
prepend2b(m, asn) ==
    LET prep_asn == IF asn >= 65535 THEN AS_TRANS ELSE asn
        i == getAttribIdx(m, AS_PATH)
        r == prependAsPath(m.path_attribute[i], prep_asn)
        m1 == IF ~hasAttrib(m, AS_PATH)
              THEN [m EXCEPT !.path_attribute =
                       Append(@, prependAsPath(BgpPathAttribAsPath(FALSE, <<>>), prep_asn).attr)]
              ELSE [m EXCEPT !.path_attribute[i] = r.attr]
        j == getAttribIdx(m1, AS4_PATH)
        r4 == prependAs4Path(m1.path_attribute[j], prep_asn)
    IN IF hasAttrib(m, AS_PATH) /\ m.path_attribute[i].is_4b THEN [msg |-> m, ret |-> FALSE]
       ELSE IF hasAttrib(m, AS_PATH) /\ ~r.ret THEN [msg |-> m, ret |-> FALSE]
       ELSE IF ~hasAttrib(m1, AS4_PATH) THEN [msg |-> m1, ret |-> TRUE]
       ELSE [msg |-> [m1 EXCEPT !.path_attribute[j] = r4.attr], ret |-> r4.ret]

\* BgpUpdateMessage::prepend.
prepend(m, asn) == IF m.use_4b_asn THEN prepend4b(m, asn) ELSE prepend2b(m, asn)

\* The messages the methods are called on: attribute lists of pairwise
\* distinct type codes, AS_PATHs whose first segment is an AS_SEQUENCE, an
\* AS_SET, or of a type parse can deliver and prepend does not know.
AttrPaths(is_4b) ==
    {<<>>, <<BgpAsPathSegment(is_4b, AS_SEQUENCE, <<65000>>)>>,
     <<BgpAsPathSegment(is_4b, AS_SET, <<65000>>)>>, <<BgpAsPathSegment(is_4b, 3, <<65000>>)>>}
AttrLists ==
    {<<>>}
    \cup UNION { { <<BgpPathAttribOrigin(IGP), BgpPathAttribAsPath(w, p), BgpPathAttribNexthop(1)>> :
                     p \in AttrPaths(w) } : w \in BOOLEAN }
    \cup { <<BgpPathAttribAsPath(FALSE, p), BgpPathAttribAs4Path(q)>> :
             p \in AttrPaths(FALSE), q \in {<<>>, <<BgpAsPathSegment(TRUE, AS_SEQUENCE, <<70000>>)>>} }
    \cup { <<BgpPathAttribAggregator(w, 1, 65000)>> : w \in BOOLEAN }
AttrMsgs == { BgpUpdateMessage(w, l, <<>>, <<>>) : w \in BOOLEAN, l \in AttrLists }

\* The messages prepend is called on to fill a segment: AS_PATHs whose first
\* segment is one short of full or full.
FullSeg(is_4b, n) == BgpAsPathSegment(is_4b, AS_SEQUENCE, [k \in 1..n |-> 65000])
FullPaths(is_4b) ==
    {<<>>, <<FullSeg(is_4b, MaxSegAsns - 1)>>, <<FullSeg(is_4b, MaxSegAsns)>>,
     <<FullSeg(is_4b, MaxSegAsns), BgpAsPathSegment(is_4b, AS_SEQUENCE, <<65000>>)>>,
     <<BgpAsPathSegment(is_4b, AS_SET, <<65000>>), FullSeg(is_4b, MaxSegAsns - 1)>>}
PrependLists ==
    UNION { { <<BgpPathAttribOrigin(IGP), BgpPathAttribAsPath(w, p), BgpPathAttribNexthop(1)>> :
                p \in FullPaths(w) } : w \in BOOLEAN }
    \cup { <<BgpPathAttribAsPath(FALSE, p), BgpPathAttribAs4Path(q)>> :
             p \in FullPaths(FALSE), q \in {<<>>, <<FullSeg(TRUE, MaxSegAsns)>>} }
PrependMsgs == { BgpUpdateMessage(w, l, <<>>, <<>>) : w \in BOOLEAN, l \in PrependLists }

AddArgs == {BgpPathAttribOrigin(EGP), BgpPathAttribNexthop(2), BgpPathAttribAsPath(TRUE, <<>>)}
UpdateArgs == {BgpPathAttribOrigin(INCOMPLETE), BgpPathAttribMed(5)}
DropTypes == {AS_PATH, NEXT_HOP, AS4_PATH}
NextHops == {2, 3}
PrependAsns == {65000, 70000}

InitAttr == msg0 \in AttrMsgs /\ msg = msg0 /\ ops = <<>>
InitPrepend == msg0 \in PrependMsgs /\ msg = msg0 /\ ops = <<>>

\* A method has run on msg with the argument arg.
AppliedWith(name, arg, r) ==
    /\ Len(ops) < MaxOps
    /\ msg' = r.msg
    /\ ops' = Append(ops, [op |-> name, ret |-> r.ret, arg |-> arg])
    /\ msg0' = msg0

DoAddAttrib == \E a \in AddArgs : AppliedWith("addAttrib", a, addAttrib(msg, a))

DoUpdateAttribute == \E a \in UpdateArgs : AppliedWith("updateAttribute", a, updateAttribute(msg, a))

DoDropAttrib == \E t \in DropTypes : AppliedWith("dropAttrib", t, dropAttrib(msg, t))

DoSetNextHop == \E n \in NextHops : AppliedWith("setNextHop", n, setNextHop(msg, n))

DoPrepend == \E asn \in PrependAsns : AppliedWith("prepend", asn, prepend(msg, asn))

\* The host calls prepend on the message's AS_PATH attribute.
DoPrependAsPath ==
    /\ hasAttrib(msg, AS_PATH)
    /\ \E asn \in PrependAsns :
         LET i == getAttribIdx(msg, AS_PATH)
             r == prependAsPath(msg.path_attribute[i], asn)
         IN AppliedWith("prependAsPath", asn,
                        [msg |-> [msg EXCEPT !.path_attribute[i] = r.attr], ret |-> r.ret])

\* The host calls prepend on the first segment of the message's AS_PATH.
DoPrependSeg ==
    /\ hasAttrib(msg, AS_PATH) /\ getAttrib(msg, AS_PATH).segs # <<>>
    /\ \E asn \in PrependAsns :
         LET i == getAttribIdx(msg, AS_PATH)
             r == prependSeg(msg.path_attribute[i].segs[1], asn)
         IN AppliedWith("prependSeg", asn,
                        [msg |-> [msg EXCEPT !.path_attribute[i].segs[1] = r.seg], ret |-> r.ret])

(***************************************************************************)
(* The wire form of an UPDATE: BgpUpdateMessage::write and ::parse,        *)
(* src/src/protocol/bgp-update-message.cc, and the attribute codecs of     *)
(* src/unnamed/part_000.  A buffer is a sequence of bytes; a position in   *)
(* it is the offset from its start as the code's pointers count it.        *)
(***************************************************************************)
\* Size of the memory behind the caller's pointer, large enough for every
\* message of the family; the caller offers buf_sz bytes of it.
BufSz == 32
BufSizes == 0..BufSz

\* putValue / memcpy: the bytes stored at offset off.
PutBytes(buf, off, bytes) ==
    [i \in 1..Len(buf) |-> IF i > off /\ i <= off + Len(bytes) THEN bytes[i - off] ELSE buf[i]]

\* The bytes from offset off to the end.
From(buf, off) == SubSeq(buf, off + 1, Len(buf))

\* putValue<uint16_t>(htons(v)) and a 32-bit value in network byte order.
Htons(v) == <<(v \div 256) % 256, v % 256>>
Htonl(v) == <<(v \div 16777216) % 256, (v \div 65536) % 256, (v \div 256) % 256, v % 256>>
Ntohs(b) == b[1] * 256 + b[2]
Ntohl(b) == ((b[1] * 256 + b[2]) * 256 + b[3]) * 256 + b[4]

Bit(b) == IF b THEN 1 ELSE 0

\* An IPv4 route of an UPDATE: the prefix as the bytes it takes on the wire.
Route(prefix, length) == [prefix |-> prefix, length |-> length]

writeHeader(a) ==
    <<Bit(a.optional) * 128 + Bit(a.transitive) * 64 + Bit(a.partial) * 32 + Bit(a.extended) * 16,
      a.type_code>>

Written(ret, bytes) == [ret |-> ret, bytes |-> bytes]

writeOrigin(a, buffer_sz) ==
    IF buffer_sz < 3 THEN Written(-1, <<>>)
    ELSE Written(4, writeHeader(a) \o <<1, a.val>>)

RECURSIVE SegsBytes(_, _)
\* The value of an AS_PATH: per segment its type, its count and its ASNs.
SegsBytes(segs, i) ==
    IF i > Len(segs) THEN <<>>
    ELSE LET s == segs[i]
             RECURSIVE Asns(_)
             Asns(k) == IF k > Len(s.value) THEN <<>>
                        ELSE (IF s.is_4b THEN Htonl(s.value[k]) ELSE Htons(s.value[k])) \o Asns(k + 1)
         IN <<s.type, Len(s.value)>> \o Asns(1) \o SegsBytes(segs, i + 1)

writeAsPath(a, buffer_sz) ==
    LET value == SegsBytes(a.segs, 1) IN
    IF buffer_sz < Len(value) + 3 THEN Written(-1, <<>>)
    ELSE Written(Len(value) + 3, writeHeader(a) \o <<Len(value)>> \o value)

writeNexthop(a, buffer_sz) ==
    IF buffer_sz < 7 THEN Written(-1, <<>>)
    ELSE Written(7, writeHeader(a) \o <<4>> \o Htonl(a.addr))

\* BgpPathAttribUnknow::write: the header with the flags as the object holds
\* them, value_len and the value bytes.
writeUnknow(a, buffer_sz) ==
    IF buffer_sz < Len(a.value) + 3 THEN Written(-1, <<>>)
    ELSE Written(Len(a.value) + 3, writeHeader(a) \o <<Len(a.value)>> \o a.value)

\* attr->write(buffer, buf_left), dispatched on the attribute's class.
writeAttrib(a, buffer_sz) ==
    CASE a.type_code = ORIGIN -> writeOrigin(a, buffer_sz)
      [] a.type_code = AS_PATH -> writeAsPath(a, buffer_sz)
      [] a.type_code = NEXT_HOP -> writeNexthop(a, buffer_sz)
      [] OTHER -> writeUnknow(a, buffer_sz)

RECURSIVE writeRoutes(_, _, _, _, _)
\* The loops of lines 544-559 and 589-605. st: the buffer, the write pointer,
\* the bytes counted so far, and whether the size check has passed.  Each
\* route stores its length byte and then pfx_buf_sz bytes copied from the
\* address of route_len: the length byte again, then what lies behind that
\* local variable (stack), bytes the build decides.
writeRoutes(routes, i, st, room, stack) ==
    IF i > Len(routes) \/ ~st.ok THEN st
    ELSE LET route_len == routes[i].length
             pfx_buf_sz == (route_len + 7) \div 8
         IN IF 1 + st.written + pfx_buf_sz > room THEN [st EXCEPT !.ok = FALSE]
            ELSE writeRoutes(routes, i + 1,
                    [buf |-> PutBytes(st.buf, st.pos,
                                      <<route_len>> \o SubSeq(<<route_len>> \o stack, 1, pfx_buf_sz)),
                     pos |-> st.pos + 1 + pfx_buf_sz,
                     written |-> st.written + 1 + pfx_buf_sz,
                     ok |-> TRUE],
                    room, stack)

\* A negative ssize_t handed to a size_t parameter: SizeRange stands for 2^64,
\* beyond every size the model reaches.
SizeRange == 2 ^ 30
AsSizeT(v) == IF v < 0 THEN SizeRange + v ELSE v

RECURSIVE writeAttribs(_, _, _, _, _, _)
\* The loop of lines 572-580: every attribute is written at the same pointer,
\* which the loop never advances.  buf_left is negative when the withdrawn
\* routes and their length field have outgrown buf_sz: the assert of line 574
\* ends the process there, and a build with NDEBUG hands the value on as a
\* size_t.
writeAttribs(attrs, i, st, pos, room, ndebug) ==
    IF i > Len(attrs) \/ ~st.ok \/ st.aborted THEN st
    ELSE LET buf_left == room - st.written IN
         IF buf_left < 0 /\ ~ndebug THEN [st EXCEPT !.aborted = TRUE]
         ELSE LET w == writeAttrib(attrs[i], AsSizeT(buf_left)) IN
              IF w.ret < 0 THEN [st EXCEPT !.ok = FALSE]
              ELSE writeAttribs(attrs, i + 1,
                      [buf |-> PutBytes(st.buf, pos, w.bytes), written |-> st.written + w.ret,
                       ok |-> TRUE, high |-> Max(st.high, pos + Len(w.bytes)), aborted |-> FALSE],
                      pos, room, ndebug)

\* What a call of write leaves: its return value, the memory from to on, one
\* past the highest offset it stored to, and whether the assert ended it.
WriteResult(ret, buf, high, aborted) == [ret |-> ret, buf |-> buf, high |-> high, aborted |-> aborted]

\* BgpUpdateMessage::write(to, buf_sz).  to is the memory from the pointer on,
\* which may reach further than the buf_sz bytes the caller offers.
write(m, to, buf_sz, stack, ndebug) ==
    IF buf_sz < 4 THEN WriteResult(-1, to, 0, FALSE)
    ELSE
    LET wd == writeRoutes(m.withdrawn_routes, 1,
                          [buf |-> to, pos |-> 1, written |-> 0, ok |-> TRUE], buf_sz, stack)
        h0 == IF wd.pos > 1 THEN wd.pos ELSE 0
    IN IF ~wd.ok THEN WriteResult(-1, wd.buf, h0, FALSE)
    ELSE
    LET b1 == PutBytes(wd.buf, 0, Htons(wd.written))
        tot1 == wd.written + 2
        route_attrib_len_ptr == wd.pos
        buffer == wd.pos + 1
        at == writeAttribs(m.path_attribute, 1,
                           [buf |-> b1, written |-> 0, ok |-> TRUE, high |-> Max(h0, 2), aborted |-> FALSE],
                           buffer, buf_sz - tot1, ndebug)
    IN IF at.aborted \/ ~at.ok THEN WriteResult(-1, at.buf, at.high, at.aborted)
    ELSE
    LET b2 == PutBytes(at.buf, route_attrib_len_ptr, Htons(at.written))
        h2 == Max(at.high, route_attrib_len_ptr + 2)
        tot2 == tot1 + at.written + 2
        nl == writeRoutes(m.nlri, 1, [buf |-> b2, pos |-> buffer, written |-> 0, ok |-> TRUE],
                          buf_sz - tot2, stack)
        h3 == IF nl.pos > buffer THEN Max(h2, nl.pos) ELSE h2
    IN IF ~nl.ok THEN WriteResult(-1, nl.buf, h3, FALSE)
       ELSE WriteResult(tot2 + nl.written, nl.buf, h3, FALSE)

\* A read at index i of the bytes; a read past their end yields beyond, a
\* byte the build decides.
Rd(from, i, beyond) == IF i <= Len(from) THEN from[i] ELSE beyond

Header(ret, err, flags, type_code, value_len, read) ==
    [ret |-> ret, err |-> err,
     optional |-> (flags \div 128) % 2 = 1, transitive |-> (flags \div 64) % 2 = 1,
     partial |-> (flags \div 32) % 2 = 1, extended |-> (flags \div 16) % 2 = 1,
     type_code |-> type_code, value_len |-> value_len, read |-> read]

\* BgpPathAttrib::parseHeader without the test of value_len against the
\* buffer.
parseHeaderNoLengthCheck(from, buffer_sz) ==
    IF buffer_sz < 3 THEN Header(-1, <<E_UPDATE, E_UNSPEC_UPDATE>>, 0, 0, 0, 0)
    ELSE Header(2, NoError, from[1], from[2], from[3], 3)

\* BgpPathAttrib::parseHeader.  read: how many bytes of from it has read.
parseHeader(from, buffer_sz) ==
    IF buffer_sz < 3 THEN Header(-1, <<E_UPDATE, E_UNSPEC_UPDATE>>, 0, 0, 0, 0)
    ELSE IF from[3] > buffer_sz - 3
    THEN Header(-1, <<E_UPDATE, E_UNSPEC_UPDATE>>, from[1], from[2], from[3], 3)
    ELSE Header(2, NoError, from[1], from[2], from[3], 3)

\* The attribute an attribute parser has filled in.
Filled(h, is_4b, segs, val, addr) ==
    [type_code |-> h.type_code, optional |-> h.optional, transitive |-> h.transitive,
     partial |-> h.partial, extended |-> h.extended, is_4b |-> is_4b,
     segs |-> segs, val |-> val, addr |-> addr, value |-> <<>>]

\* What an attribute parser leaves: its return value, the error it has set
\* (code, subcode and data), the attribute object, and how many bytes of
\* from it has read.
Parsed(ret, err, data, attr, read) ==
    [ret |-> ret, err |-> err, data |-> data, attr |-> attr, read |-> read]

Failed(h, err, data, read) == Parsed(-1, err, data, Filled(h, FALSE, <<>>, 0, 0), read)

\* The data_len bytes setError copies from from.
ErrData(from, data_len, beyond) == [k \in 1..data_len |-> Rd(from, k, beyond)]

parseOrigin(from, length, beyond) ==
    LET h == parseHeader(from, length) IN
    IF h.ret # 3 THEN Failed(h, h.err, <<>>, h.read)
    ELSE IF h.value_len < 1 THEN Failed(h, <<E_UPDATE, E_UNSPEC_UPDATE>>, <<>>, 3)
    ELSE IF h.value_len # 1 THEN Failed(h, <<E_UPDATE, E_ATTR_LEN>>, ErrData(from, 4, beyond), 4)
    ELSE IF h.optional \/ ~h.transitive
    THEN Failed(h, <<E_UPDATE, E_ATTR_FLAG>>, ErrData(from, 4, beyond), 4)
    ELSE IF from[4] > 2 THEN Failed(h, <<E_UPDATE, E_ORIGIN>>, ErrData(from, 4, beyond), 4)
    ELSE Parsed(4, NoError, <<>>, Filled(h, FALSE, <<>>, from[4], 0), 4)

\* getValue<uint16_t> / getValue<uint32_t> of the segment loop: the bytes as
\* the host stores them (least significant first), no ntohs / ntohl applied.
HostValue(from, off, w, beyond) ==
    LET RECURSIVE V(_)
        V(k) == IF k = 0 THEN 0 ELSE V(k - 1) * 256 + Rd(from, off + (w - k) + 1, beyond)
    IN V(w)

RECURSIVE parseSegs(_, _, _, _, _, _, _)
\* The while loop of BgpPathAttribAsPath::parse; parsed_len and asns_length
\* are uint8_t.  read: the offset the buffer pointer has reached.
parseSegs(from, value_len, parsed_len, off, is_4b, segs, beyond) ==
    IF parsed_len >= value_len
    THEN [ok |-> TRUE, segs |-> segs, parsed_len |-> parsed_len, read |-> off]
    ELSE IF value_len - parsed_len < 3
    THEN [ok |-> FALSE, segs |-> segs, parsed_len |-> parsed_len, read |-> off]
    ELSE LET type == Rd(from, off + 1, beyond)
             n_asn == Rd(from, off + 2, beyond)
             w == IF is_4b THEN 4 ELSE 2
             pl == (parsed_len + 2) % 256
             asns_length == (n_asn * w) % 256
         IN IF pl + asns_length > value_len
            THEN [ok |-> FALSE, segs |-> segs, parsed_len |-> pl, read |-> off + 2]
            ELSE parseSegs(from, value_len, (pl + asns_length) % 256, off + 2 + n_asn * w, is_4b,
                           Append(segs, BgpAsPathSegment(is_4b, type,
                               [k \in 1..n_asn |-> HostValue(from, off + 2 + (k - 1) * w, w, beyond)])),
                           beyond)

parseAsPath(from, length, is_4b, beyond) ==
    LET h == parseHeader(from, length) IN
    IF h.ret # 3 THEN Failed(h, h.err, <<>>, h.read)
    ELSE IF h.optional \/ ~h.transitive
    THEN Failed(h, <<E_UPDATE, E_ATTR_FLAG>>, ErrData(from, 4, beyond), 4)
    ELSE IF h.value_len = 0 THEN Parsed(3, NoError, <<>>, Filled(h, is_4b, <<>>, 0, 0), 3)
    ELSE LET s == parseSegs(from, h.value_len, 0, 3, is_4b, <<>>, beyond) IN
         IF ~s.ok THEN Failed(h, <<E_UPDATE, E_AS_PATH>>, <<>>, s.read)
         ELSE Parsed(s.parsed_len + 3, NoError, <<>>, Filled(h, is_4b, s.segs, 0, 0), s.read)

parseNexthop(from, length) ==
    LET h == parseHeader(from, length) IN
    IF h.ret # 3 THEN Failed(h, h.err, <<>>, h.read)
    ELSE IF h.value_len # 4 THEN Failed(h, <<E_UPDATE, E_ATTR_LEN>>, <<>>, 3)
    ELSE Parsed(7, NoError, <<>>, Filled(h, FALSE, <<>>, 0, Ntohl(SubSeq(from, 4, 7))), 7)

\* BgpPathAttribUnknow::parse: on success the value bytes are kept and the
\* whole of length is reported as consumed.
parseUnknow(from, length, beyond) ==
    LET h == parseHeader(from, length) IN
    IF h.ret # 3 THEN Failed(h, h.err, <<>>, h.read)
    ELSE IF ~h.optional /\ h.transitive
    THEN Failed(h, <<E_UPDATE, E_BAD_WELL_KNOWN>>, ErrData(from, h.value_len + 3, beyond), h.value_len + 3)
    ELSE Parsed(length, NoError, <<>>,
                [Filled(h, FALSE, <<>>, 0, 0) EXCEPT !.value = SubSeq(from, 4, 3 + h.value_len)],
                3 + h.value_len)

\* The switch of lines 456-468 and the attrib->parse call of line 472.
parseAttrib(attr_type, from, length, use_4b_asn, beyond) ==
    CASE attr_type = ORIGIN -> parseOrigin(from, length, beyond)
      [] attr_type = AS_PATH -> parseAsPath(from, length, use_4b_asn, beyond)
      [] attr_type = NEXT_HOP -> parseNexthop(from, length)
      [] OTHER -> parseUnknow(from, length, beyond)

RECURSIVE parseRoutes(_, _, _, _, _)
\* The loops of lines 397-426 and 493-522: routes of list_len bytes in all,
\* read from offset off.  On a failure off is the offset past the length
\* byte, the last byte read.
parseRoutes(from, off, list_len, parsed, routes) ==
    IF parsed >= list_len THEN [ok |-> TRUE, off |-> off, parsed |-> parsed, routes |-> routes]
    ELSE LET route_len == from[off + 1]
             route_buffer_len == (route_len + 7) \div 8
         IN IF route_len > 32 \/ parsed + 1 + route_buffer_len > list_len
            THEN [ok |-> FALSE, off |-> off + 1, parsed |-> parsed + 1, routes |-> routes]
            ELSE parseRoutes(from, off + 1 + route_buffer_len, list_len, parsed + 1 + route_buffer_len,
                             Append(routes, Route(SubSeq(from, off + 2, off + 1 + route_buffer_len),
                                                  route_len)))

RECURSIVE parseAttribs(_, _, _, _, _, _, _, _)
\* The loop of lines 439-483. GetTypeFromBuffer yields the type byte as an
\* int8_t, negative from 128 on.  read: the highest offset of from read so
\* far.
parseAttribs(from, off, attribute_len, parsed, attrs, use_4b_asn, beyond, read) ==
    IF parsed >= attribute_len
    THEN [ok |-> TRUE, off |-> off, parsed |-> parsed, attrs |-> attrs, err |-> NoError, read |-> read]
    ELSE IF attribute_len - parsed < 3
    THEN [ok |-> FALSE, off |-> off, parsed |-> parsed, attrs |-> attrs,
          err |-> <<E_UPDATE, E_UNSPEC>>, read |-> read]
    ELSE IF from[off + 2] >= 128
    THEN [ok |-> FALSE, off |-> off, parsed |-> parsed, attrs |-> attrs,
          err |-> <<E_UPDATE, E_UNSPEC>>, read |-> Max(read, off + 2)]
    ELSE LET p == parseAttrib(from[off + 2], From(from, off), attribute_len - parsed, use_4b_asn, beyond)
         IN IF p.ret < 0
            THEN [ok |-> FALSE, off |-> off, parsed |-> parsed, attrs |-> attrs, err |-> p.err,
                  read |-> Max(read, off + p.read)]
            ELSE parseAttribs(from, off + p.ret, attribute_len, parsed + p.ret,
                              Append(attrs, p.attr), use_4b_asn, beyond, Max(read, off + p.read))

\* What parse leaves: its return value, the message with the error it has
\* set, and the highest offset of from it has read.
ParseResult(ret, err, use_4b_asn, withdrawn_routes, path_attribute, nlri, read) ==
    [ret |-> ret,
     msg |-> [BgpUpdateMessage(use_4b_asn, path_attribute, withdrawn_routes, nlri) EXCEPT !.err = err],
     read |-> read]

\* BgpUpdateMessage::parse(from, msg_sz) into an empty message.
parse(from, use_4b_asn, beyond) ==
    LET msg_sz == Len(from) IN
    IF msg_sz < 4 THEN ParseResult(-1, <<E_HEADER, E_LENGTH>>, use_4b_asn, <<>>, <<>>, <<>>, 0)
    ELSE
    LET withdrawn_len == Ntohs(SubSeq(from, 1, 2)) IN
    IF withdrawn_len > msg_sz - 4
    THEN ParseResult(-1, <<E_UPDATE, E_UNSPEC>>, use_4b_asn, <<>>, <<>>, <<>>, 2)
    ELSE
    LET wd == parseRoutes(from, 2, withdrawn_len, 0, <<>>) IN
    IF ~wd.ok THEN ParseResult(-1, <<E_UPDATE, E_UNSPEC>>, use_4b_asn, wd.routes, <<>>, <<>>, wd.off)
    ELSE
    LET attribute_len == Ntohs(SubSeq(from, wd.off + 1, wd.off + 2)) IN
    IF attribute_len + withdrawn_len + 4 > msg_sz
    THEN ParseResult(-1, <<E_UPDATE, E_ATTR_LIST>>, use_4b_asn, wd.routes, <<>>, <<>>, wd.off + 2)
    ELSE
    LET at == parseAttribs(from, wd.off + 2, attribute_len, 0, <<>>, use_4b_asn, beyond, wd.off + 2) IN
    IF ~at.ok THEN ParseResult(-1, at.err, use_4b_asn, wd.routes, at.attrs, <<>>, at.read)
    ELSE
    LET v == validateAttribs(BgpUpdateMessage(use_4b_asn, at.attrs, wd.routes, <<>>)) IN
    IF ~v.ret THEN ParseResult(-1, v.msg.err, use_4b_asn, wd.routes, at.attrs, <<>>, at.read)
    ELSE
    LET nlri_len == msg_sz - 4 - at.parsed - wd.parsed
        nl == parseRoutes(from, at.off, nlri_len, 0, <<>>)
    IN IF ~nl.ok
       THEN ParseResult(-1, <<E_UPDATE, E_UNSPEC>>, use_4b_asn, wd.routes, at.attrs, nl.routes,
                        Max(at.read, nl.off))
       ELSE ParseResult(msg_sz, NoError, use_4b_asn, wd.routes, at.attrs, nl.routes,
                        Max(at.read, nl.off))

(***************************************************************************)
(* The messages written and parsed.                                        *)
(***************************************************************************)
\* Contents of the caller's buffer before the write, of the memory behind
\* write's local route_len, and of the memory past a parsed buffer.
FillBytes == {0, 255}
StackBytes == {<<0, 0, 0>>, <<10, 1, 0>>}
BeyondBytes == {0, 255}

CodecRoutes == {<<>>, <<Route(<<10>>, 8)>>, <<Route(<<10, 1>>, 16)>>}
CodecOrigins == {IGP, INCOMPLETE}
CodecPaths == {<<>>, <<BgpAsPathSegment(TRUE, AS_SEQUENCE, <<65000>>)>>,
               <<BgpAsPathSegment(TRUE, AS_SEQUENCE, <<70000>>)>>}
CodecNexthops == {1, 2}

\* Well-formed UPDATEs of a 4-byte session.
CodecMsgs ==
    { BgpUpdateMessage(TRUE, <<BgpPathAttribOrigin(o), BgpPathAttribAsPath(TRUE, p),
                               BgpPathAttribNexthop(n)>>, wd, nl) :
        o \in CodecOrigins, p \in CodecPaths, n \in CodecNexthops,
        wd \in CodecRoutes, nl \in CodecRoutes }

NoParse == ParseResult(0, NoError, FALSE, <<>>, <<>>, <<>>, 0)

InitCodec ==
    /\ cpc = "init"
    /\ cmsg \in CodecMsgs
    /\ \E f \in FillBytes : cbuf = [i \in 1..BufSz |-> f]
    /\ cret = 0
    /\ csz = 0
    /\ chigh = 0
    /\ cparsed = NoParse

\* The host writes the message into its buffer, offering buf_sz bytes.  A
\* call the assert of line 574 ends returns nothing.
Write ==
    /\ cpc = "init"
    /\ \E buf_sz \in BufSizes, stack \in StackBytes, ndebug \in BOOLEAN :
         LET w == write(cmsg, cbuf, buf_sz, stack, ndebug)
         IN  /\ ~w.aborted
             /\ cbuf' = w.buf
             /\ cret' = w.ret
             /\ csz' = buf_sz
             /\ chigh' = w.high
    /\ cpc' = "written"
    /\ UNCHANGED <<cmsg, cparsed>>

\* The peer parses the bytes the write has reported.
Parse ==
    /\ cpc = "written" /\ cret > 0
    /\ \E beyond \in BeyondBytes : cparsed' = parse(SubSeq(cbuf, 1, cret), cmsg.use_4b_asn, beyond)
    /\ cpc' = "parsed"
    /\ UNCHANGED <<cmsg, cbuf, cret, csz, chigh>>

(***************************************************************************)
(* Parsers run on received bytes: BgpUpdateMessage::parse on the body of   *)
(* an UPDATE, the attribute parsers on one attribute's buffer.             *)
(***************************************************************************)
\* The body of an UPDATE: both length fields as the lists' sizes.
Body(wd, attrs, nlri) == Htons(Len(wd)) \o wd \o Htons(Len(attrs)) \o attrs \o nlri

\* Route lists: none, 10/8, a prefix length of 33, a /16 with one byte.
RouteBytes == {<<>>, <<8, 10>>, <<33, 10>>, <<16, 10>>}

OriginBytes(flags, len, v) == <<flags, 1, len>> \o [k \in 1..len |-> v]
AsPath4Bytes == <<64, 2, 6, 2, 1, 0, 0, 253, 232>>
AsPath2Bytes == <<64, 2, 4, 2, 1, 253, 232>>
NexthopBytes == <<64, 3, 4, 10, 0, 0, 1>>
\* Attributes of type 99, which no class parses: optional transitive,
\* optional transitive partial, optional non-transitive, well-known.
UnknowBytes == {<<192, 99, 2, 7, 8>>, <<224, 99, 2, 7, 8>>, <<128, 99, 1, 7>>, <<64, 99, 1, 7>>}

\* Attribute lists of an UPDATE.
AttrListBytes ==
    {<<>>, OriginBytes(64, 1, 0) \o AsPath4Bytes \o NexthopBytes,
     OriginBytes(64, 1, 0) \o AsPath2Bytes \o NexthopBytes}
    \cup {u \o OriginBytes(64, 1, 0) \o AsPath4Bytes \o NexthopBytes : u \in UnknowBytes}
    \cup UnknowBytes

\* Bodies of less than 4 bytes, and bodies whose withdrawn-routes length or
\* attribute-list length exceeds the body.
BadBodies == {<<>>, <<0>>, <<0, 0, 0>>, <<0, 5, 0, 0>>, <<0, 0, 0, 9>>, <<0, 2, 8, 10, 0, 9>>}

UpdateInputs ==
    { [kind |-> "update", bytes |-> b, is_4b |-> w, beyond |-> y] :
        b \in BadBodies \cup { Body(wd, at, nl) : wd \in RouteBytes, at \in AttrListBytes, nl \in RouteBytes },
        w \in BOOLEAN, y \in BeyondBytes }

\* One attribute's bytes: ORIGIN with each flag and length fault, AS_PATH
\* with segment counts from 0 on, unknown attributes; Chop cuts a buffer
\* short of the length its header declares.
Chop(b) == SubSeq(b, 1, Len(b) - 1)
OriginBufs == { OriginBytes(f, l, v) : f \in {64, 192, 0}, l \in 0..2, v \in {0, 2, 3} }
AsPathBufs ==
    {AsPath4Bytes, AsPath2Bytes, <<64, 2, 0>>, <<64, 2, 2, 2, 0>>, <<64, 2, 4, 2, 3, 0, 1>>,
     <<64, 2, 8, 2, 1, 0, 1, 1, 1, 0, 2>>, <<64, 2, 5, 2, 64, 0, 0, 0>>, <<192, 2, 0>>}
AttrBufs == OriginBufs \cup AsPathBufs \cup UnknowBytes

AttrInputs ==
    { [kind |-> "attr", bytes |-> b, is_4b |-> w, beyond |-> y] :
        b \in AttrBufs \cup { Chop(c) : c \in AttrBufs }, w \in BOOLEAN, y \in BeyondBytes }

InitParse == pin \in UpdateInputs \cup AttrInputs /\ pop = "none" /\ pout = <<>>

\* A parser has run on pin.
ParserRan(name, r) == pop' = name /\ pout' = r /\ pin' = pin

\* The host hands a received body to BgpUpdateMessage::parse.
ParseUpdate ==
    /\ pop = "none" /\ pin.kind = "update"
    /\ ParserRan("update", parse(pin.bytes, pin.is_4b, pin.beyond))

\* The host hands an attribute's bytes to an attribute object's parse.
ParseOrigin ==
    /\ pop = "none" /\ pin.kind = "attr"
    /\ ParserRan("origin", parseOrigin(pin.bytes, Len(pin.bytes), pin.beyond))

ParseAsPath ==
    /\ pop = "none" /\ pin.kind = "attr"
    /\ ParserRan("aspath", parseAsPath(pin.bytes, Len(pin.bytes), pin.is_4b, pin.beyond))

ParseUnknow ==
    /\ pop = "none" /\ pin.kind = "attr"
    /\ ParserRan("unknow", parseUnknow(pin.bytes, Len(pin.bytes), pin.beyond))

(***************************************************************************)
(* Two threads calling into one BgpRib6, src/src/bgp-rib6.cc.  crib is the *)
(* shared object (its rib vector and its update_id), mtx the owner of its  *)
(* recursive mutex (0: free).  A thread's steps are the code's accesses to *)
(* the shared object in program order; what the code does while it holds   *)
(* the mutex (lock_guard) is one step apart from taking and releasing it.  *)
(***************************************************************************)
Threads == {1, 2}

Call(op, src, route, weight) == [op |-> op, src |-> src, route |-> route, weight |-> weight]

ConcCalls ==
    {Call("insert", 1, R0, w) : w \in Weights}
    \cup {Call("insert_local_batch", 0, R0, 0), Call("withdraw", 1, R0, 0), Call("discard", 1, R0, 0)}

ConcAttribs == CHOOSE a \in PeerAttribs : TRUE

\* new_entry of insertPriv (lines 50-52) and of the batch local insert (217-219).
NewEntry(c, uid) ==
    [BgpRib6Entry(c.route, c.src, 1, 3, IF c.op = "insert" THEN ConcAttribs ELSE LocalAttribs)
        EXCEPT !.update_id = uid, !.weight = c.weight]

\* Where a call starts: the inserts scan at once, withdraw and discard take
\* the mutex first.
FirstPc(c) ==
    CASE c.op = "insert" -> "scan"
      [] c.op = "insert_local_batch" -> "local_scan"
      [] OTHER -> "lock"

NoScan == [entry |-> 0, update_id |-> 0]

InitConc ==
    /\ crib \in {[rib |-> <<>>, update_id |-> 0],
                 [rib |-> <<NewEntry(Call("insert", 1, R0, 0), 0)>>, update_id |-> 1]}
    /\ tcall \in [Threads -> ConcCalls]
    /\ tpc = [t \in Threads |-> FirstPc(tcall[t])]
    /\ tfound = [t \in Threads |-> NoScan]
    /\ mtx = 0

Goto(t, pc) == tpc' = [tpc EXCEPT ![t] = pc]

\* insertPriv, lines 50-58: reads update_id and scans the vector, the mutex not held.
InsertScan(t) ==
    /\ tpc[t] = "scan"
    /\ LET i == FindEntry(crib.rib, tcall[t].src, tcall[t].route) IN
       /\ tfound' = [tfound EXCEPT ![t] = [entry |-> i, update_id |-> crib.update_id]]
       /\ IF i = 0 THEN Goto(t, "lock")
          ELSE IF EntryGreater(NewEntry(tcall[t], crib.update_id), crib.rib[i])
               THEN Goto(t, "erase")
               ELSE Goto(t, "done")
    /\ UNCHANGED <<tcall, mtx, crib>>

\* rib.erase(entry) through the iterator of the scan. When the vector has
\* shrunk below that position the iterator is end() or past it, and the
\* erase leaves the vector as it is or cuts its last element off.
EraseAt(r, i) ==
    IF i <= Len(r) THEN {RemoveAt(r, i)}
    ELSE {r} \cup (IF r # <<>> THEN {SubSeq(r, 1, Len(r) - 1)} ELSE {})

\* insertPriv, line 57: the erase, the mutex not held.
EraseUnlocked(t) ==
    /\ tpc[t] = "erase"
    /\ \E r \in EraseAt(crib.rib, tfound[t].entry) : crib' = [crib EXCEPT !.rib = r]
    /\ Goto(t, "push_unlocked")
    /\ UNCHANGED <<tcall, tfound, mtx>>

\* insertPriv, line 59, and the batch local insert, line 220: push_back, the
\* mutex not held.
PushUnlocked(t) ==
    /\ tpc[t] = "push_unlocked"
    /\ crib' = [crib EXCEPT !.rib = Append(@, NewEntry(tcall[t], tfound[t].update_id))]
    /\ Goto(t, "incr")
    /\ UNCHANGED <<tcall, tfound, mtx>>

\* mutex.lock() of line 84 and the lock_guard of withdraw and discard.
Lock(t) ==
    /\ tpc[t] = "lock"
    /\ mtx = 0
    /\ mtx' = t
    /\ Goto(t, IF tcall[t].op = "insert" THEN "push" ELSE tcall[t].op)
    /\ UNCHANGED <<tcall, tfound, crib>>

\* insertPriv, line 85: the push_back of an entry the scan did not find.
PushLocked(t) ==
    /\ tpc[t] = "push"
    /\ crib' = [crib EXCEPT !.rib = Append(@, NewEntry(tcall[t], tfound[t].update_id))]
    /\ Goto(t, "unlock")
    /\ UNCHANGED <<tcall, tfound, mtx>>

\* withdraw, lines 320-335, under its lock_guard.
WithdrawLocked(t) ==
    /\ tpc[t] = "withdraw"
    /\ crib' = [crib EXCEPT !.rib = withdraw(@, tcall[t].src, tcall[t].route).rib]
    /\ Goto(t, "unlock")
    /\ UNCHANGED <<tcall, tfound, mtx>>

\* discard, lines 363-379, under its lock_guard.
DiscardLocked(t) ==
    /\ tpc[t] = "discard"
    /\ crib' = [crib EXCEPT !.rib = discard(@, tcall[t].src).rib]
    /\ Goto(t, "unlock")
    /\ UNCHANGED <<tcall, tfound, mtx>>

\* mutex.unlock() of line 86 and the end of a lock_guard's scope.
Unlock(t) ==
    /\ tpc[t] = "unlock"
    /\ mtx' = 0
    /\ Goto(t, IF tcall[t].op = "insert" THEN "incr" ELSE "done")
    /\ UNCHANGED <<tcall, tfound, crib>>

\* The batch local insert, lines 204-219: the scan for a local entry of the
\* route and the read of update_id, no mutex anywhere in the call.
LocalBatchScan(t) ==
    /\ tpc[t] = "local_scan"
    /\ tfound' = [tfound EXCEPT ![t] = [entry |-> FindEntry(crib.rib, 0, tcall[t].route),
                                        update_id |-> crib.update_id]]
    /\ Goto(t, IF FindEntry(crib.rib, 0, tcall[t].route) # 0 THEN "incr" ELSE "push_unlocked")
    /\ UNCHANGED <<tcall, mtx, crib>>

\* update_id++ of lines 224 and 281, the mutex not held: the read ...
IncrRead(t) ==
    /\ tpc[t] = "incr"
    /\ tfound' = [tfound EXCEPT ![t].update_id = crib.update_id]
    /\ Goto(t, "incr_write")
    /\ UNCHANGED <<tcall, mtx, crib>>

\* ... and the write.
IncrWrite(t) ==
    /\ tpc[t] = "incr_write"
    /\ crib' = [crib EXCEPT !.update_id = tfound[t].update_id + 1]
    /\ Goto(t, "done")
    /\ UNCHANGED <<tcall, tfound, mtx>>

(***************************************************************************)
(* The session FSM (BgpFsm).  Its implementation is not among the sources: *)
(* the transitions are those of the specification's section 4.2, the error *)
(* codes those of bgp-path-attrib.h, and a session that was never started  *)
(* answers an OPEN, as the remote session of the header's example does.    *)
(***************************************************************************)
IDLE == "IDLE"
OPEN_SENT == "OPEN_SENT"
OPEN_CONFIRM == "OPEN_CONFIRM"
ESTABLISHED == "ESTABLISHED"

E_OPEN == 2
E_HOLD == 4
E_FSM == 5
E_CEASE == 6
E_PEER_AS == 2
E_OPEN_SENT == 1
E_OPEN_CONFIRM == 2
E_ESTABLISHED == 3
E_SHUTDOWN == 2
E_COLLISION == 7

\* No deadline: the timer is not pending.
NoTimer == -1
\* BGP identifiers are 32 bits wide: <<high 16 bits, low 16 bits>>.
NoId == <<0, 0>>

\* A message of the session: OPEN, UPDATE, NOTIFICATION, KEEPALIVE, and BAD
\* for bytes the parser rejects with (code, subcode).
BgpMessage(type) ==
    [type |-> type, code |-> 0, subcode |-> 0, asn |-> 0, hold_time |-> 0, bgp_id |-> NoId,
     withdrawn |-> FALSE]
BgpOpenMessage(asn, hold_time, bgp_id) ==
    [BgpMessage("OPEN") EXCEPT !.asn = asn, !.hold_time = hold_time, !.bgp_id = bgp_id]
BgpKeepaliveMessage == BgpMessage("KEEPALIVE")
BgpNotificationMessage(code, subcode) ==
    [BgpMessage("NOTIFICATION") EXCEPT !.code = code, !.subcode = subcode]
BgpUpdate(withdrawn) == [BgpMessage("UPDATE") EXCEPT !.withdrawn = withdrawn]
BadBytes(code, subcode) == [BgpMessage("BAD") EXCEPT !.code = code, !.subcode = subcode]

BgpConfig(asn, peer_asn, hold_timer, router_id, no_collision_detection) ==
    [asn |-> asn, peer_asn |-> peer_asn, hold_timer |-> hold_timer, router_id |-> router_id,
     no_collision_detection |-> no_collision_detection]

\* The entry point that ran last on a session, and the state it found.
FsmEvent(op, m, ok, from) == [op |-> op, msg |-> m, ok |-> ok, from |-> from]

\* A session as constructed.  out: the messages the last entry point handed
\* to the output handler.
BgpFsm(config) ==
    [state |-> IDLE, config |-> config, hold_time |-> 0, peer_bgp_id |-> NoId,
     hold_deadline |-> NoTimer, keepalive_deadline |-> NoTimer, out |-> <<>>,
     ev |-> FsmEvent("none", BgpMessage("NONE"), TRUE, IDLE)]

\* The session returns to IDLE with its timers left pending.
toIdleKeepsTimers(s) == [s EXCEPT !.state = IDLE]

\* The session returns to IDLE: pending timers are discarded and what was
\* negotiated with the peer is released.
toIdle(s) ==
    [s EXCEPT !.state = IDLE, !.hold_time = 0, !.peer_bgp_id = NoId,
              !.hold_deadline = NoTimer, !.keepalive_deadline = NoTimer]

\* The session that keeps running when its notification was written.
writeNotificationKeeps(s, code, subcode) ==
    [s EXCEPT !.out = <<BgpNotificationMessage(code, subcode)>>]

\* A failure: one NOTIFICATION is handed to the output handler, then IDLE.
writeNotification(s, code, subcode) ==
    toIdle([s EXCEPT !.out = <<BgpNotificationMessage(code, subcode)>>])

\* msgs are handed to the output handler; ok: handle_out returned true each
\* time.  On false the first write failed and the session goes to IDLE.
writeMessages(s, msgs, ok) ==
    IF ok THEN [s EXCEPT !.out = msgs] ELSE toIdle([s EXCEPT !.out = <<msgs[1]>>])

\* The OPEN the session sends.
openOf(s) == BgpOpenMessage(s.config.asn, s.config.hold_timer, s.config.router_id)

\* start: IDLE to OPEN_SENT, sending OPEN.  A running session is left alone.
start(s, ok) ==
    IF s.state # IDLE THEN [s EXCEPT !.out = <<>>]
    ELSE writeMessages([s EXCEPT !.state = OPEN_SENT], <<openOf(s)>>, ok)

\* stop: any state to IDLE, with NOTIFICATION (E_CEASE, E_SHUTDOWN) on a
\* best-effort basis.
stop(s, ok) == writeNotification(s, E_CEASE, E_SHUTDOWN)

\* An OPEN that passes validation is accepted as soon as it is received.
openRecvNoConfirm(s, m, ok, collided) ==
    IF m.asn # s.config.peer_asn THEN writeNotification(s, E_OPEN, E_PEER_AS)
    ELSE IF collided THEN writeNotification(s, E_CEASE, E_COLLISION)
    ELSE writeMessages([s EXCEPT !.state = ESTABLISHED,
                                 !.hold_time = Min(s.config.hold_timer, m.hold_time),
                                 !.peer_bgp_id = m.bgp_id],
                       IF s.state = IDLE THEN <<openOf(s), BgpKeepaliveMessage>>
                       ELSE <<BgpKeepaliveMessage>>, ok)

\* An OPEN is received in OPEN_SENT, or in IDLE by a session that was not
\* started.  collided: a sibling reported the session's CollisionProbe handled.
openRecv(s, m, ok, collided) ==
    IF m.asn # s.config.peer_asn THEN writeNotification(s, E_OPEN, E_PEER_AS)
    ELSE IF collided THEN writeNotification(s, E_CEASE, E_COLLISION)
    ELSE writeMessages([s EXCEPT !.state = OPEN_CONFIRM,
                                 !.hold_time = Min(s.config.hold_timer, m.hold_time),
                                 !.peer_bgp_id = m.bgp_id],
                       IF s.state = IDLE THEN <<openOf(s), BgpKeepaliveMessage>>
                       ELSE <<BgpKeepaliveMessage>>, ok)

\* The hold timer is restarted at time t without a look at the hold time.
resetHoldTimerAlways(s, t) == [s EXCEPT !.hold_deadline = t + s.hold_time]

\* The hold timer is (re)started at time t; a hold time of zero disables it.
resetHoldTimer(s, t) ==
    [s EXCEPT !.hold_deadline = IF s.hold_time > 0 THEN t + s.hold_time ELSE NoTimer]

\* The keepalive timer is (re)started at time t: a third of the hold time.
resetKeepaliveTimer(s, t) ==
    [s EXCEPT !.keepalive_deadline = IF s.hold_time > 0 THEN t + (s.hold_time \div 3) ELSE NoTimer]

\* A message is received at time t (bytes_in).
run(s, m, t, ok, collided) ==
    LET quiet == [s EXCEPT !.out = <<>>] IN
    IF m.type = "BAD" THEN writeNotification(s, m.code, m.subcode)
    ELSE IF s.state = IDLE
    THEN IF m.type = "OPEN" THEN openRecv(s, m, ok, collided) ELSE quiet
    ELSE IF s.state = OPEN_SENT
    THEN IF m.type = "OPEN" THEN openRecv(s, m, ok, collided)
         ELSE writeNotification(s, E_FSM, E_OPEN_SENT)
    ELSE IF s.state = OPEN_CONFIRM
    THEN IF m.type = "KEEPALIVE"
         THEN resetKeepaliveTimer(resetHoldTimer([quiet EXCEPT !.state = ESTABLISHED], t), t)
         ELSE IF m.type = "NOTIFICATION" THEN toIdle(quiet)
         ELSE writeNotification(s, E_FSM, E_OPEN_CONFIRM)
    ELSE IF m.type = "KEEPALIVE" THEN resetHoldTimer(quiet, t)
         ELSE IF m.type = "UPDATE" THEN quiet
         ELSE IF m.type = "NOTIFICATION" THEN toIdle(quiet)
         ELSE writeNotification(s, E_FSM, E_ESTABLISHED)

\* tick at time t: hold-timer expiry in ESTABLISHED, else a KEEPALIVE when
\* the keepalive timer is due.
tick(s, t, ok) ==
    IF s.state = ESTABLISHED /\ s.hold_deadline # NoTimer /\ t >= s.hold_deadline
    THEN writeNotification(s, E_HOLD, 0)
    ELSE IF s.state = ESTABLISHED /\ s.keepalive_deadline # NoTimer /\ t >= s.keepalive_deadline
    THEN writeMessages(resetKeepaliveTimer(s, t), <<BgpKeepaliveMessage>>, ok)
    ELSE [s EXCEPT !.out = <<>>]

\* An UPDATE received in ESTABLISHED inserts its route into the RIB or
\* withdraws it, under the peer's BGP identifier; no other message and no
\* other state touches the RIB.
updateRecv(s, m, r, uid) ==
    LET src_router_id == s.peer_bgp_id[2]
        attribs == CHOOSE a \in PeerAttribs : TRUE
    IN  IF s.state = ESTABLISHED /\ m.type = "UPDATE"
        THEN IF m.withdrawn
             THEN [rib |-> withdraw(r, src_router_id, R1).rib, update_id |-> uid]
             ELSE LET p == insertPeer(r, uid, src_router_id, R1, 1, NullPtr, attribs, 0)
                  IN  [rib |-> p.rib, update_id |-> p.update_id]
        ELSE [rib |-> r, update_id |-> uid]

(***************************************************************************)
(* One session driven by its host: configurations, the peer's messages,    *)
(* the clock.                                                              *)
(***************************************************************************)
\* The clock stops at MaxClock; one tick advances it by at most MaxTick.
MaxClock == 7
MaxTick == 3

FsmHolds == {0, 3, 6}
PeerHolds == {0, 3, 6}
LocalId == <<0, 1>>
PeerId == <<0, 2>>

PeerMsgs ==
    { BgpOpenMessage(65001, h, PeerId) : h \in PeerHolds }
    \cup { BgpOpenMessage(65002, 3, PeerId), BgpKeepaliveMessage, BgpUpdate(FALSE), BgpUpdate(TRUE),
           BgpNotificationMessage(E_CEASE, E_SHUTDOWN),
           BadBytes(E_HEADER, E_LENGTH), BadBytes(E_UPDATE, E_ATTR_LIST) }

InitFsm ==
    /\ fsm \in { <<BgpFsm(BgpConfig(65000, 65001, h, LocalId, TRUE))>> : h \in FsmHolds }
    /\ now = 0

\* Entry point op has run on session i and left it as s.
Stepped(i, s, op, m, ok) ==
    fsm' = [fsm EXCEPT ![i] = [s EXCEPT !.ev = FsmEvent(op, m, ok, fsm[i].state)]]

FsmStart ==
    \E ok \in BOOLEAN :
        /\ Stepped(1, start(fsm[1], ok), "start", BgpMessage("NONE"), ok)
        /\ UNCHANGED <<now, ribVars>>

FsmStop ==
    \E ok \in BOOLEAN :
        /\ Stepped(1, stop(fsm[1], ok), "stop", BgpMessage("NONE"), ok)
        /\ UNCHANGED <<now, ribVars>>

FsmTick ==
    \E t \in (now + 1)..Min(now + MaxTick, MaxClock), ok \in BOOLEAN :
        /\ now' = t
        /\ Stepped(1, tick(fsm[1], t, ok), "tick", BgpMessage("NONE"), ok)
        /\ UNCHANGED ribVars

FsmRun ==
    \E m \in PeerMsgs, ok \in BOOLEAN :
        LET u == updateRecv(fsm[1], m, rib, update_id)
        IN  /\ u.update_id <= MaxUpdateId
            /\ Stepped(1, run(fsm[1], m, now, ok, FALSE), "run", m, ok)
            /\ rib' = u.rib
            /\ update_id' = u.update_id
            /\ UNCHANGED <<now, lastop>>

(***************************************************************************)
(* The route event bus (RouteEventBus) and its subscribers.  Its           *)
(* implementation is not among the sources: subscribe, unsubscribe and     *)
(* publish are those of the specification's section 4.4 and of the         *)
(* header's example, the events those of bgp-update-message.cc.            *)
(***************************************************************************)
\* A route-withdraw event and a collision probe.
RouteWithdrawEvent(routes) == [type |-> "withdraw", routes |-> routes]
RouteCollisionEvent(peer_bgp_id) == [type |-> "collision", peer_bgp_id |-> peer_bgp_id]

\* subscribe(receiver): the receiver joins behind the subscribers there are;
\* a subscriber stays where it is.
subscribe(sb, receiver) ==
    IF \E k \in 1..Len(sb) : sb[k] = receiver THEN sb ELSE Append(sb, receiver)

\* unsubscribe(receiver): the receiver leaves, the others keep their order.
unsubscribe(sb, receiver) == SelectSeq(sb, LAMBDA x : x # receiver)

\* The handler calls of one publish with the publisher's own handler among
\* them.
RECURSIVE fanOutToPublisher(_, _, _, _)
fanOutToPublisher(sb, publisher, event, consumed) ==
    IF sb = <<>> THEN <<>>
    ELSE LET receiver == Head(sb)
             call == [to |-> receiver, event |-> event, consumed |-> consumed[receiver]]
         IN  <<call>> \o (IF event.type = "collision" /\ call.consumed THEN <<>>
                          ELSE fanOutToPublisher(Tail(sb), publisher, event, consumed))

\* The handler calls of one publish, in call order: the subscribers in
\* subscription order without the publisher; consumed[r] is what receiver
\* r's handler returns, and a collision probe goes no further than the
\* first handler that returns true.
RECURSIVE fanOut(_, _, _, _)
fanOut(sb, publisher, event, consumed) ==
    IF sb = <<>> THEN <<>>
    ELSE LET receiver == Head(sb)
             call == [to |-> receiver, event |-> event, consumed |-> consumed[receiver]]
         IN  IF receiver = publisher THEN fanOut(Tail(sb), publisher, event, consumed)
             ELSE <<call>> \o (IF event.type = "collision" /\ call.consumed THEN <<>>
                               ELSE fanOut(Tail(sb), publisher, event, consumed))

(***************************************************************************)
(* One bus under subscribe, unsubscribe and publish: the receivers, the    *)
(* events and what the handlers return.                                    *)
(***************************************************************************)
\* At most MaxEvents events are published.
MaxEvents == 2

Receivers == {1, 2, 3}
RevEvents == { RouteWithdrawEvent(<<R1>>), RouteCollisionEvent(PeerId) }

InitRev == subs = <<>> /\ delivered = <<>> /\ bus = <<>>

Subscribe ==
    \E receiver \in Receivers :
        /\ subs' = subscribe(subs, receiver)
        /\ UNCHANGED <<delivered, bus>>

Unsubscribe ==
    \E receiver \in Receivers :
        /\ subs' = unsubscribe(subs, receiver)
        /\ UNCHANGED <<delivered, bus>>

Publish ==
    \E publisher \in Receivers \cup {NullPtr}, event \in RevEvents, consumed \in [Receivers -> BOOLEAN] :
        /\ Len(bus) < MaxEvents
        /\ bus' = publish(bus, publisher, event, <<>>)
        /\ delivered' = delivered \o fanOut(subs, publisher, event, consumed)
        /\ UNCHANGED subs

(***************************************************************************)
(* Two sibling sessions on one bus: the collision probe of a session that  *)
(* receives an OPEN, and its handling by the sibling (specification,       *)
(* sections 4.2 and 4.4; RouteCollisionEvent of bgp-update-message.cc).    *)
(***************************************************************************)
\* BGP identifier a is lower than b, both read as signed 32-bit numbers.
idLessSigned(a, b) ==
    LET high(x) == IF x[1] >= 32768 THEN x[1] - 65536 ELSE x[1]
    IN  high(a) < high(b) \/ (high(a) = high(b) /\ a[2] < b[2])

\* BGP identifier a is lower than b, both read as unsigned 32-bit numbers.
idLess(a, b) == a[1] < b[1] \/ (a[1] = b[1] /\ a[2] < b[2])

\* Session s, on receiving m, publishes a collision probe: an OPEN that
\* passed validation, unless collision detection is disabled.
probes(s, m) ==
    /\ m.type = "OPEN"
    /\ s.state \in {IDLE, OPEN_SENT}
    /\ m.asn = s.config.peer_asn
    /\ ~s.config.no_collision_detection

\* Session s's handler is called with a collision probe of its sibling
\* publisher.  A session that is up with the probe's peer resolves the
\* collision: with the lower local BGP identifier it is retained and reports
\* the probe handled, which sends the publisher to IDLE; else it sends
\* NOTIFICATION (E_CEASE, E_COLLISION) and goes to IDLE itself.  tie: what a
\* session does whose local identifier equals the publisher's.
handleCollisionEvent(s, event, publisher, tie) ==
    IF /\ ~s.config.no_collision_detection
       /\ s.state \in {OPEN_CONFIRM, ESTABLISHED}
       /\ s.peer_bgp_id = event.peer_bgp_id
    THEN IF \/ idLess(s.config.router_id, publisher.config.router_id)
            \/ (s.config.router_id = publisher.config.router_id /\ tie)
         THEN [fsm |-> s, consumed |-> TRUE]
         ELSE [fsm |-> writeNotification(s, E_CEASE, E_COLLISION), consumed |-> FALSE]
    ELSE [fsm |-> s, consumed |-> FALSE]

\* Session i of the sessions ss receives m at time t: its probe, if it
\* publishes one, reaches its siblings through the bus before the OPEN is
\* answered.
runSiblings(ss, sb, i, m, t, ok, tie) ==
    LET event == RouteCollisionEvent(m.bgp_id)
        consumed == [r \in DOMAIN ss |-> handleCollisionEvent(ss[r], event, ss[i], tie).consumed]
        calls == IF probes(ss[i], m) THEN fanOut(sb, i, event, consumed) ELSE <<>>
        called(r) == \E k \in 1..Len(calls) : calls[k].to = r
        collided == \E k \in 1..Len(calls) : calls[k].consumed
    IN  [fsm |-> [r \in DOMAIN ss |->
                    IF r = i THEN run(ss[i], m, t, ok, collided)
                    ELSE IF called(r) THEN handleCollisionEvent(ss[r], event, ss[i], tie).fsm
                    ELSE ss[r]],
         calls |-> calls]

\* The local BGP identifiers of the second session; the first has SiblingId
\* and collision detection.
SiblingId == <<0, 3>>
CollIds == {<<0, 1>>, <<0, 3>>, <<32768, 0>>}
OtherPeerId == <<0, 9>>

CollMsgs ==
    { BgpOpenMessage(65001, 3, PeerId), BgpOpenMessage(65001, 3, OtherPeerId),
      BgpOpenMessage(65002, 3, PeerId), BgpKeepaliveMessage }

InitColl ==
    /\ fsm \in { <<BgpFsm(BgpConfig(65000, 65001, 3, SiblingId, FALSE)),
                   BgpFsm(BgpConfig(65000, 65001, 3, id, d))>> :
                 id \in CollIds, d \in BOOLEAN }
    /\ now = 0
    /\ subs = <<1, 2>>
    /\ delivered = <<>>
    /\ bus = <<>>

\* The output handler fails, if it does, on the answer to a message.
CollStart ==
    \E i \in {1, 2} :
        /\ Stepped(i, start(fsm[i], TRUE), "start", BgpMessage("NONE"), TRUE)
        /\ UNCHANGED <<now, subs, delivered, bus>>

CollStop ==
    \E i \in {1, 2} :
        /\ Stepped(i, stop(fsm[i], TRUE), "stop", BgpMessage("NONE"), TRUE)
        /\ UNCHANGED <<now, subs, delivered, bus>>

\* Which way a tie goes is open only where the two identifiers are equal.
CollRun ==
    \E i \in {1, 2}, m \in CollMsgs, ok \in BOOLEAN,
       tie \in IF fsm[1].config.router_id = fsm[2].config.router_id THEN BOOLEAN ELSE {FALSE} :
        LET p == runSiblings(fsm, subs, i, m, now, ok, tie)
        IN  /\ probes(fsm[i], m) => Len(bus) < MaxEvents
            /\ fsm' = [p.fsm EXCEPT ![i].ev = FsmEvent("run", m, ok, fsm[i].state)]
            /\ bus' = IF probes(fsm[i], m) THEN publish(bus, i, RouteCollisionEvent(m.bgp_id), <<>>)
                      ELSE bus
            /\ delivered' = delivered \o p.calls
            /\ UNCHANGED <<now, subs>>

(***************************************************************************)
(* Placeholders for the state of the other parts while one part runs.      *)
(***************************************************************************)
InitMsgIdle == msg = <<>> /\ msg0 = <<>> /\ ops = <<>>
InitCodecIdle ==
    cpc = "off" /\ cmsg = <<>> /\ cbuf = <<>> /\ cret = 0 /\ csz = 0 /\ chigh = 0 /\ cparsed = NoParse
InitBusIdle == bus = <<>>
InitFsmIdle == fsm = <<>> /\ now = 0
InitRevIdle == subs = <<>> /\ delivered = <<>>
InitParseIdle == pin = <<>> /\ pop = "off" /\ pout = <<>>
InitConcIdle == tpc = <<>> /\ tcall = <<>> /\ tfound = <<>> /\ mtx = 0 /\ crib = [rib |-> <<>>, update_id |-> 0]

Init == InitRib /\ InitMsgIdle /\ InitCodecIdle /\ InitConcIdle /\ InitParseIdle /\ InitBusIdle /\ InitFsmIdle /\ InitRevIdle

Next ==
    \/ InsertPeer /\ UNCHANGED <<msgVars, codecVars, concVars, parseVars, busVars, fsmVars, revVars>>
    \/ InsertPeerBatch /\ UNCHANGED <<msgVars, codecVars, concVars, parseVars, busVars, fsmVars, revVars>>
    \/ InsertLocal /\ UNCHANGED <<msgVars, codecVars, concVars, parseVars, busVars, fsmVars, revVars>>
    \/ InsertLocalBatch /\ UNCHANGED <<msgVars, codecVars, concVars, parseVars, busVars, fsmVars, revVars>>
    \/ Withdraw /\ UNCHANGED <<msgVars, codecVars, concVars, parseVars, busVars, fsmVars, revVars>>
    \/ Discard /\ UNCHANGED <<msgVars, codecVars, concVars, parseVars, busVars, fsmVars, revVars>>
    \/ Lookup /\ UNCHANGED <<msgVars, codecVars, concVars, parseVars, busVars, fsmVars, revVars>>
    \/ LookupScoped /\ UNCHANGED <<msgVars, codecVars, concVars, parseVars, busVars, fsmVars, revVars>>

Spec == Init /\ [][Next]_vars

InitRibIdle == rib = <<>> /\ update_id = 0 /\ lastop = NoOp

NextMsg ==
    \/ DoRestoreAsPath /\ UNCHANGED <<ribVars, codecVars, concVars, parseVars, busVars, fsmVars, revVars>>
    \/ DoDowngradeAsPath /\ UNCHANGED <<ribVars, codecVars, concVars, parseVars, busVars, fsmVars, revVars>>
    \/ DoRestoreAggregator /\ UNCHANGED <<ribVars, codecVars, concVars, parseVars, busVars, fsmVars, revVars>>
    \/ DoDowngradeAggregator /\ UNCHANGED <<ribVars, codecVars, concVars, parseVars, busVars, fsmVars, revVars>>
    \/ DoValidateAttribs /\ UNCHANGED <<ribVars, codecVars, concVars, parseVars, busVars, fsmVars, revVars>>

InitM == InitMsg /\ InitRibIdle /\ InitCodecIdle /\ InitConcIdle /\ InitParseIdle /\ InitBusIdle /\ InitFsmIdle /\ InitRevIdle

SpecMsg == InitM /\ [][NextMsg]_vars

InitC == InitCodec /\ InitRibIdle /\ InitMsgIdle /\ InitConcIdle /\ InitParseIdle /\ InitBusIdle /\ InitFsmIdle /\ InitRevIdle

NextCodec ==
    \/ Write /\ UNCHANGED <<ribVars, msgVars, concVars, parseVars, busVars, fsmVars, revVars>>
    \/ Parse /\ UNCHANGED <<ribVars, msgVars, concVars, parseVars, busVars, fsmVars, revVars>>

SpecCodec == InitC /\ [][NextCodec]_vars

InitT == InitConc /\ InitRibIdle /\ InitMsgIdle /\ InitCodecIdle /\ InitParseIdle /\ InitBusIdle /\ InitFsmIdle /\ InitRevIdle

NextConc ==
    \/ \E t \in Threads : InsertScan(t) /\ UNCHANGED <<ribVars, msgVars, codecVars, parseVars, busVars, fsmVars, revVars>>
    \/ \E t \in Threads : EraseUnlocked(t) /\ UNCHANGED <<ribVars, msgVars, codecVars, parseVars, busVars, fsmVars, revVars>>
    \/ \E t \in Threads : PushUnlocked(t) /\ UNCHANGED <<ribVars, msgVars, codecVars, parseVars, busVars, fsmVars, revVars>>
    \/ \E t \in Threads : Lock(t) /\ UNCHANGED <<ribVars, msgVars, codecVars, parseVars, busVars, fsmVars, revVars>>
    \/ \E t \in Threads : PushLocked(t) /\ UNCHANGED <<ribVars, msgVars, codecVars, parseVars, busVars, fsmVars, revVars>>
    \/ \E t \in Threads : WithdrawLocked(t) /\ UNCHANGED <<ribVars, msgVars, codecVars, parseVars, busVars, fsmVars, revVars>>
    \/ \E t \in Threads : DiscardLocked(t) /\ UNCHANGED <<ribVars, msgVars, codecVars, parseVars, busVars, fsmVars, revVars>>
    \/ \E t \in Threads : Unlock(t) /\ UNCHANGED <<ribVars, msgVars, codecVars, parseVars, busVars, fsmVars, revVars>>
    \/ \E t \in Threads : LocalBatchScan(t) /\ UNCHANGED <<ribVars, msgVars, codecVars, parseVars, busVars, fsmVars, revVars>>
    \/ \E t \in Threads : IncrRead(t) /\ UNCHANGED <<ribVars, msgVars, codecVars, parseVars, busVars, fsmVars, revVars>>
    \/ \E t \in Threads : IncrWrite(t) /\ UNCHANGED <<ribVars, msgVars, codecVars, parseVars, busVars, fsmVars, revVars>>

SpecConc == InitT /\ [][NextConc]_vars

InitL == InitLookup /\ InitMsgIdle /\ InitCodecIdle /\ InitConcIdle /\ InitParseIdle /\ InitBusIdle /\ InitFsmIdle /\ InitRevIdle

NextLookup ==
    \/ Lookup /\ UNCHANGED <<msgVars, codecVars, concVars, parseVars, busVars, fsmVars, revVars>>
    \/ LookupScopedFrom(LookupSrcs) /\ UNCHANGED <<msgVars, codecVars, concVars, parseVars, busVars, fsmVars, revVars>>

SpecLookup == InitL /\ [][NextLookup]_vars

InitA == InitAttr /\ InitRibIdle /\ InitCodecIdle /\ InitConcIdle /\ InitParseIdle /\ InitBusIdle /\ InitFsmIdle /\ InitRevIdle

NextAttr ==
    \/ DoAddAttrib /\ UNCHANGED <<ribVars, codecVars, concVars, parseVars, busVars, fsmVars, revVars>>
    \/ DoUpdateAttribute /\ UNCHANGED <<ribVars, codecVars, concVars, parseVars, busVars, fsmVars, revVars>>
    \/ DoDropAttrib /\ UNCHANGED <<ribVars, codecVars, concVars, parseVars, busVars, fsmVars, revVars>>
    \/ DoSetNextHop /\ UNCHANGED <<ribVars, codecVars, concVars, parseVars, busVars, fsmVars, revVars>>
    \/ DoPrepend /\ UNCHANGED <<ribVars, codecVars, concVars, parseVars, busVars, fsmVars, revVars>>
    \/ DoPrependSeg /\ UNCHANGED <<ribVars, codecVars, concVars, parseVars, busVars, fsmVars, revVars>>
    \/ DoRestoreAsPath /\ UNCHANGED <<ribVars, codecVars, concVars, parseVars, busVars, fsmVars, revVars>>
    \/ DoDowngradeAsPath /\ UNCHANGED <<ribVars, codecVars, concVars, parseVars, busVars, fsmVars, revVars>>
    \/ DoRestoreAggregator /\ UNCHANGED <<ribVars, codecVars, concVars, parseVars, busVars, fsmVars, revVars>>
    \/ DoDowngradeAggregator /\ UNCHANGED <<ribVars, codecVars, concVars, parseVars, busVars, fsmVars, revVars>>

SpecAttr == InitA /\ [][NextAttr]_vars

InitF == InitPrepend /\ InitRibIdle /\ InitCodecIdle /\ InitConcIdle /\ InitParseIdle /\ InitBusIdle /\ InitFsmIdle /\ InitRevIdle

NextPrepend ==
    \/ DoPrepend /\ UNCHANGED <<ribVars, codecVars, concVars, parseVars, busVars, fsmVars, revVars>>
    \/ DoPrependSeg /\ UNCHANGED <<ribVars, codecVars, concVars, parseVars, busVars, fsmVars, revVars>>
    \/ DoPrependAsPath /\ UNCHANGED <<ribVars, codecVars, concVars, parseVars, busVars, fsmVars, revVars>>

SpecPrepend == InitF /\ [][NextPrepend]_vars

InitP == InitParse /\ InitRibIdle /\ InitMsgIdle /\ InitCodecIdle /\ InitConcIdle /\ InitBusIdle /\ InitFsmIdle /\ InitRevIdle

NextParse ==
    \/ ParseUpdate /\ UNCHANGED <<ribVars, msgVars, codecVars, concVars, busVars, fsmVars, revVars>>
    \/ ParseOrigin /\ UNCHANGED <<ribVars, msgVars, codecVars, concVars, busVars, fsmVars, revVars>>
    \/ ParseAsPath /\ UNCHANGED <<ribVars, msgVars, codecVars, concVars, busVars, fsmVars, revVars>>
    \/ ParseUnknow /\ UNCHANGED <<ribVars, msgVars, codecVars, concVars, busVars, fsmVars, revVars>>

SpecParse == InitP /\ [][NextParse]_vars

InitB == InitRib /\ InitBus /\ InitMsgIdle /\ InitCodecIdle /\ InitConcIdle /\ InitParseIdle /\ InitFsmIdle /\ InitRevIdle

NextBus ==
    \/ InsertLocalBus /\ UNCHANGED <<msgVars, codecVars, concVars, parseVars, fsmVars, revVars>>
    \/ InsertLocalBatchBus /\ UNCHANGED <<msgVars, codecVars, concVars, parseVars, fsmVars, revVars>>

SpecBus == InitB /\ [][NextBus]_vars

InitS == InitFsm /\ InitRib /\ InitMsgIdle /\ InitCodecIdle /\ InitConcIdle /\ InitParseIdle /\ InitBusIdle /\ InitRevIdle

NextFsm ==
    \/ FsmStart /\ UNCHANGED <<msgVars, codecVars, concVars, parseVars, busVars, revVars>>
    \/ FsmStop /\ UNCHANGED <<msgVars, codecVars, concVars, parseVars, busVars, revVars>>
    \/ FsmTick /\ UNCHANGED <<msgVars, codecVars, concVars, parseVars, busVars, revVars>>
    \/ FsmRun /\ UNCHANGED <<msgVars, codecVars, concVars, parseVars, busVars, revVars>>

SpecFsm == InitS /\ [][NextFsm]_vars

InitV == InitRev /\ InitRib /\ InitMsgIdle /\ InitCodecIdle /\ InitConcIdle /\ InitParseIdle /\ InitFsmIdle

NextRev ==
    \/ Subscribe /\ UNCHANGED <<ribVars, msgVars, codecVars, concVars, parseVars, fsmVars>>
    \/ Unsubscribe /\ UNCHANGED <<ribVars, msgVars, codecVars, concVars, parseVars, fsmVars>>
    \/ Publish /\ UNCHANGED <<ribVars, msgVars, codecVars, concVars, parseVars, fsmVars>>

SpecRev == InitV /\ [][NextRev]_vars

InitX == InitColl /\ InitRib /\ InitMsgIdle /\ InitCodecIdle /\ InitConcIdle /\ InitParseIdle

NextColl ==
    \/ CollStart /\ UNCHANGED <<ribVars, msgVars, codecVars, concVars, parseVars>>
    \/ CollStop /\ UNCHANGED <<ribVars, msgVars, codecVars, concVars, parseVars>>
    \/ CollRun /\ UNCHANGED <<ribVars, msgVars, codecVars, concVars, parseVars>>

SpecCollision == InitX /\ [][NextColl]_vars

(***************************************************************************)
(* Properties of the RIB.                                                  *)
(***************************************************************************)
SameKey(a, b) == a.src_router_id = b.src_router_id /\ a.route = b.route

\* C1: starting from an empty RIB, after any sequence of RIB operations the
\* RIB never holds two entries with the same (src_router_id, route) pair.
C1_OneEntryPerKey ==
    \A i, j \in 1..Len(rib) : i # j => ~SameKey(rib[i], rib[j])

\* A batch local insert was handed the same route twice and stored it once,
\* beside another entry.
C1_Witness ==
    /\ lastop.op = "insert_local_batch"
    /\ lastop.routes = <<R0, R0>>
    /\ Len(lastop.ret) = 1
    /\ Len(rib) >= 2

\* The entry a single insert from a peer builds from its arguments.
ArgEntry(op, uid) ==
    [route |-> op.routes[1], src_router_id |-> op.src, nexthop_global |-> op.arg[1],
     nexthop_linklocal |-> IF op.arg[2] = NullPtr THEN 0 ELSE op.arg[2],
     attribs |-> op.arg[3], weight |-> op.arg[4], update_id |-> uid]

C2_Step ==
    lastop'.op = "insert" =>
        LET new == ArgEntry(lastop', update_id)
            existing == {i \in 1..Len(rib) : SameKey(rib[i], new)}
        IN  IF existing = {}
            THEN lastop'.ret = TRUE /\ rib' = Append(rib, new)
            ELSE \E i \in existing :
                    IF EntryGreater(new, rib[i])
                    THEN /\ lastop'.ret = TRUE
                         /\ rib' = Append(RemoveAt(rib, i), new)
                         /\ Len(rib') = Len(rib)
                    ELSE /\ lastop'.ret = FALSE
                         /\ rib' = rib
                         /\ update_id' = update_id

\* C2: a single insert from a peer appends and returns true when no entry
\* with (src, route) exists; replaces the existing entry (count unchanged)
\* and returns true exactly when the new entry is preferred by the
\* tie-break; and otherwise returns false, leaving the entries and the
\* update-id counter unchanged.
C2_InsertPeerContract == [][C2_Step]_vars

\* A single insert from a peer replaced an existing entry, beside another one.
C2_Witness ==
    /\ lastop.op = "insert"
    /\ lastop.found # 0
    /\ lastop.ret = TRUE
    /\ Len(rib) >= 2

\* C11: the update-id counter never decreases; every call of a list-taking
\* insert (batch from a peer, batch local) advances it by exactly 1, however
\* many of its routes were inserted; withdraw, discard and lookup leave it
\* unchanged.
C11_Step ==
    /\ update_id' >= update_id
    /\ lastop'.op \in {"insert_batch", "insert_local_batch"} => update_id' = update_id + 1
    /\ lastop'.op \in {"withdraw", "discard", "lookup", "lookup_scoped"} => update_id' = update_id

C11_UpdateIdCounter == [][C11_Step]_vars

\* A batch insert from a peer was handed routes, inserted none of them, and
\* the counter has advanced with it.
C11_Witness ==
    /\ lastop.op = "insert_batch"
    /\ lastop.routes # <<>>
    /\ lastop.ret = 0
    /\ update_id = MaxUpdateId

C12_Step ==
    lastop'.op = "insert_local" =>
        LET route == lastop'.routes[1]
            exists == \E i \in 1..Len(rib) : rib[i].src_router_id = 0 /\ rib[i].route = route
        IN  IF exists
            THEN /\ lastop'.ret = <<>>
                 /\ rib' = rib
                 /\ update_id' = update_id
            ELSE /\ Len(rib') = Len(rib) + 1
                 /\ SubSeq(rib', 1, Len(rib)) = rib
                 /\ lastop'.ret = <<rib'[Len(rib')]>>
                 /\ LET e == rib'[Len(rib')]
                    IN  /\ e.src_router_id = 0
                        /\ e.route = route
                        /\ e.nexthop_global = lastop'.arg[1]
                        /\ e.nexthop_linklocal = (IF lastop'.arg[2] = NullPtr THEN 0 ELSE lastop'.arg[2])
                        /\ e.weight = lastop'.arg[4]
                        /\ e.attribs = <<BgpPathAttribOrigin(IGP), BgpPathAttribAsPath(TRUE, <<>>)>>

C13_Step ==
    (lastop'.op = "insert_local" /\ lastop'.ret # <<>>) =>
        LET new == lastop'.ret[1]
            same == {i \in 1..Len(rib) :
                        /\ rib[i].src_router_id = 0
                        /\ rib[i].nexthop_global = new.nexthop_global
                        /\ rib[i].nexthop_linklocal = new.nexthop_linklocal}
        IN  /\ rib'[Len(rib')] = new
            /\ IF same # {}
               THEN /\ \E i \in same : new.update_id = rib[i].update_id
                    /\ update_id' = update_id
               ELSE /\ \A i \in 1..Len(rib) : rib[i].update_id # new.update_id
                    /\ update_id' = update_id + 1

\* C13: a single local insert that stores an entry gives it the update_id
\* of a stored local entry with the same nexthop (global and link-local)
\* and does not advance the counter when there is one; otherwise the new
\* entry gets an update_id no stored entry carries and the counter advances
\* by exactly 1.
C13_LocalUpdateGroup == [][C13_Step]_vars

\* A local route joined the update group of a stored local entry: it carries
\* an update_id below the counter's value before and after the call.
C13_Witness ==
    /\ lastop.op = "insert_local"
    /\ lastop.ret # <<>>
    /\ \E i \in 1..(Len(rib) - 1) :
          /\ rib[i].src_router_id = 0
          /\ rib[i].update_id = lastop.ret[1].update_id
          /\ rib[i].nexthop_global = lastop.ret[1].nexthop_global
          /\ rib[i].nexthop_linklocal = lastop.ret[1].nexthop_linklocal

C14_Step ==
    lastop'.op = "withdraw" =>
        LET stored == {i \in 1..Len(rib) :
                          rib[i].src_router_id = lastop'.src /\ rib[i].route = lastop'.routes[1]}
        IN  /\ lastop'.ret = (stored # {})
            /\ update_id' = update_id
            /\ IF stored # {}
               THEN \E i \in stored : rib' = RemoveAt(rib, i)
               ELSE rib' = rib

\* C14: withdraw(src, route) returns true exactly when an entry with that
\* (src, route) was stored, and then removes that one entry; every other
\* entry (another source's for the same route, the same source's for an
\* overlapping prefix) and the counter are unchanged; when it returns false
\* the RIB is unchanged.
C14_WithdrawContract == [][C14_Step]_vars

\* A withdraw removed its entry and left behind another source's entry for
\* the same route and the same source's entry for an overlapping prefix.
C14_Witness ==
    /\ lastop.op = "withdraw"
    /\ lastop.ret = TRUE
    /\ \E i \in 1..Len(rib) : rib[i].src_router_id # lastop.src /\ rib[i].route = lastop.routes[1]
    /\ \E j \in 1..Len(rib) : rib[j].src_router_id = lastop.src /\ rib[j].route # lastop.routes[1]

C15_Step ==
    lastop'.op = "discard" =>
        LET Kept(e) == e.src_router_id # lastop'.src
            Dropped(e) == e.src_router_id = lastop'.src
            gone == SelectSeq(rib, Dropped)
        IN  /\ rib' = SelectSeq(rib, Kept)
            /\ lastop'.ret = [i \in 1..Len(gone) |-> gone[i].route]
            /\ \A dest \in Addrs : lookupScoped(rib', lastop'.src, dest) = <<>>

\* C15: discard(src) removes every entry of src, adjacent ones included,
\* returns exactly the routes of the removed entries, and leaves the entries
\* of other sources and their relative order unchanged; afterwards no
\* scoped lookup for src finds an entry.
C15_DiscardContract == [][C15_Step]_vars

\* A discard removed two entries of its source and kept another source's.
C15_Witness ==
    /\ lastop.op = "discard"
    /\ Len(lastop.ret) >= 2
    /\ rib # <<>>

\* What C16 asks of a lookup result res over the entries at the indices in
\* scope: NULL exactly when scope is empty, else one of the scope's entries
\* with the greatest prefix length among them.
LongestMatch(res, scope) ==
    /\ (res = <<>>) = (scope = {})
    /\ res # <<>> =>
          /\ \E i \in scope : rib[i] = res[1]
          /\ \A j \in scope : rib[j].route.length <= res[1].route.length

\* C16: lookup(addr) returns NULL exactly when no stored route includes
\* addr, and otherwise an entry whose route includes addr with the greatest
\* prefix length among the stored routes that include addr; lookup(src, addr)
\* does the same over the entries of src and never returns an entry of
\* another source.
C16_LookupLongestMatch ==
    \A dest \in Addrs :
        /\ LongestMatch(lookup(rib, dest), {i \in 1..Len(rib) : Includes(rib[i].route, dest)})
        /\ \A src \in Srcs :
              LongestMatch(lookupScoped(rib, src, dest),
                           {i \in 1..Len(rib) : rib[i].src_router_id = src /\ Includes(rib[i].route, dest)})

\* A scoped lookup returned its source's default route while another source
\* holds a longer match for the address, stored after it.
C16_Witness ==
    /\ lastop.op = "lookup_scoped"
    /\ lastop.ret # <<>>
    /\ lastop.ret[1].src_router_id = lastop.src
    /\ \E i, j \in 1..Len(rib) :
          /\ i < j
          /\ rib[i] = lastop.ret[1]
          /\ rib[j].src_router_id # lastop.src
          /\ Includes(rib[j].route, lastop.arg[1])
          /\ rib[j].route.length > rib[i].route.length

\* A lookup result without the update group number of its entry.
Strip(res) == IF res = <<>> THEN <<>> ELSE <<[res[1] EXCEPT !.update_id = 0]>>

Perms(n) == {p \in [1..n -> 1..n] : \A i, j \in 1..n : i # j => p[i] # p[j]}

\* The RIB that single inserts of r's entries in the order p leave behind.
Reorder(r, p) == Numbered([i \in 1..Len(r) |-> r[p[i]]])

\* C17: RIB determinism: two RIBs that hold the same set of entries, reached
\* by different sequences of inserts, replacements and withdraws and so
\* stored in a different order, return the same entry from lookup(addr) for
\* every addr (an entry's update group number, which records the history,
\* is not counted as part of the entry).
C17_LookupIgnoresOrder ==
    lastop.op = "lookup" =>
        \A p \in Perms(Len(rib)) :
            /\ Reorder(rib, p) \in LookupRibs
            /\ Strip(lookup(Reorder(rib, p), lastop.arg[1])) = Strip(lastop.ret)

\* Criterion k of the tie-break strictly prefers a to b.
Favours(k, a, b) ==
    CASE k = 1 -> a.weight > b.weight
      [] k = 2 -> LocalPrefOf(a) > LocalPrefOf(b)
      [] k = 3 -> AsPathLenOf(a) < AsPathLenOf(b)
      [] k = 4 -> OriginOf(a) < OriginOf(b)
      [] k = 5 -> FirstAsOf(a) = FirstAsOf(b) /\ MedOf(a) < MedOf(b)
      [] k = 6 -> a.src_router_id < b.src_router_id

\* The first criterion that tells a and b apart prefers a.
Preferred(a, b) ==
    \E k \in 1..6 :
        /\ Favours(k, a, b)
        /\ \A h \in 1..(k - 1) : ~Favours(h, a, b) /\ ~Favours(h, b, a)

\* The example: (src = 1, med = 100) then (src = 2, med = 50) for one route,
\* alike in everything else.
C18_Example ==
    /\ Len(rib) = 2
    /\ rib[1].src_router_id = 1 /\ MedOf(rib[1]) = 100
    /\ rib[2].src_router_id = 2 /\ MedOf(rib[2]) = 50
    /\ rib[1].route = rib[2].route
    /\ rib[1].weight = rib[2].weight
    /\ \A tc \in {ORIGIN, AS_PATH, LOCAL_PREF} :
          /\ HasAttr(rib[1].attribs, tc) = HasAttr(rib[2].attribs, tc)
          /\ HasAttr(rib[1].attribs, tc) => GetAttr(rib[1].attribs, tc) = GetAttr(rib[2].attribs, tc)

\* C18: between two entries of one prefix the best path is decided by the
\* first differing criterion in the order higher weight, higher LOCAL_PREF,
\* shorter AS_PATH (an AS_SET counting 1), lower ORIGIN, lower MED (compared
\* only when the first ASes match), lower src_router_id; the relation is
\* anti-symmetric and picks exactly one of two entries from different
\* sources, and lookup returns the one it picks: after (src = 1, med = 100)
\* and (src = 2, med = 50) the src = 2 entry.
C18_BestPathOrder ==
    /\ \A i, j \in 1..Len(rib) :
          (i # j /\ rib[i].route = rib[j].route) =>
              /\ EntryGreater(rib[i], rib[j]) = Preferred(rib[i], rib[j])
              /\ ~(EntryGreater(rib[i], rib[j]) /\ EntryGreater(rib[j], rib[i]))
              /\ rib[i].src_router_id # rib[j].src_router_id =>
                    (EntryGreater(rib[i], rib[j]) \/ EntryGreater(rib[j], rib[i]))
              /\ Len(rib) = 2 =>
                    \A dest \in Addrs :
                        lookup(rib, dest) = <<IF Preferred(rib[i], rib[j]) THEN rib[i] ELSE rib[j]>>
    /\ C18_Example => \A dest \in Addrs : lookup(rib, dest) = <<rib[2]>>

\* The example's RIB was looked up and the src = 2 entry came back.
C18_Witness ==
    /\ C18_Example
    /\ lastop.op = "lookup"
    /\ lastop.ret = <<rib[2]>>

C19_Step ==
    lastop'.op = "insert_batch" =>
        /\ \A i \in 1..Len(rib') :
              (\A j \in 1..Len(rib) : rib[j] # rib'[i]) =>
                  /\ rib'[i].nexthop_global = lastop'.arg[1]
                  /\ rib'[i].nexthop_linklocal = (IF lastop'.arg[2] = NullPtr THEN 0 ELSE lastop'.arg[2])
        /\ Len(lastop'.routes) = 1 =>
              rib' = insertPeer(rib, update_id, lastop'.src, lastop'.routes[1], lastop'.arg[1],
                                lastop'.arg[2], lastop'.arg[3], lastop'.arg[4]).rib

\* C19: a batch insert from a peer stores for each inserted route an entry
\* whose nexthop_global is the nexthop_global argument and whose
\* nexthop_linklocal is the nexthop_linklocal argument: the entry the
\* single-route insert with the same arguments stores.
C19_BatchStoresNexthops == [][C19_Step]_vars

(***************************************************************************)
(* Properties of the UPDATE message.                                       *)
(***************************************************************************)
Ran(names) == Len(ops) = Len(names) /\ \A i \in 1..Len(names) : ops[i].op = names[i]

TypeCodesUnique(l) == \A i, j \in 1..Len(l) : i # j => l[i].type_code # l[j].type_code

MandatoryPresent(l) == \A tc \in {ORIGIN, AS_PATH, NEXT_HOP} : \E i \in 1..Len(l) : l[i].type_code = tc

\* C3: validateAttribs returns true if and only if every type_code occurs at
\* most once and ORIGIN, AS_PATH and NEXT_HOP are all present; a repeated
\* type_code is rejected with (E_UPDATE, E_ATTR_LIST) and a missing mandatory
\* attribute with (E_UPDATE, E_MISS_WELL_KNOWN).
C3_ValidateAttribs ==
    Ran(<<"validateAttribs">>) =>
        LET l == msg0.path_attribute IN
        /\ ops[1].ret <=> (TypeCodesUnique(l) /\ MandatoryPresent(l))
        /\ ~TypeCodesUnique(l) => msg.err = <<E_UPDATE, E_ATTR_LIST>>
        /\ (TypeCodesUnique(l) /\ ~MandatoryPresent(l)) => msg.err = <<E_UPDATE, E_MISS_WELL_KNOWN>>

\* A message whose AS_PATH and each of its segments are 4-byte, with no AS4_PATH.
Is4bPathMsg(m) ==
    /\ hasAttrib(m, AS_PATH) /\ ~hasAttrib(m, AS4_PATH)
    /\ getAttrib(m, AS_PATH).is_4b
    /\ \A i \in 1..Len(getAttrib(m, AS_PATH).segs) : getAttrib(m, AS_PATH).segs[i].is_4b

\* The 2-byte form of a 4-byte path as the claims state it: ASNs >= 2^16
\* become AS_TRANS, smaller ones stay.
TwoByteForm(segs) ==
    [i \in 1..Len(segs) |-> BgpAsPathSegment(FALSE, segs[i].type,
        [k \in 1..Len(segs[i].value) |->
            IF segs[i].value[k] >= 65536 THEN AS_TRANS ELSE segs[i].value[k]])]

As4PathCount(m) == Cardinality({i \in 1..Len(m.path_attribute) : m.path_attribute[i].type_code = AS4_PATH})

\* C5: downgradeAsPath on a message whose AS_PATH is 4-byte gives a 2-byte
\* AS_PATH in which every ASN >= 2^16 is replaced by 23456 and every ASN
\* < 2^16 (65535 included) is kept, segment types, order and counts preserved,
\* and exactly one AS4_PATH whose segments are the original 4-byte segments.
C5_DowngradeAsPath ==
    (Ran(<<"downgradeAsPath">>) /\ Is4bPathMsg(msg0)) =>
        /\ ops[1].ret
        /\ ~getAttrib(msg, AS_PATH).is_4b
        /\ getAttrib(msg, AS_PATH).segs = TwoByteForm(getAttrib(msg0, AS_PATH).segs)
        /\ As4PathCount(msg) = 1
        /\ getAttrib(msg, AS4_PATH).segs = getAttrib(msg0, AS_PATH).segs

\* C6: whenever restoreAsPath returns true on a message that has an AS_PATH,
\* afterwards that AS_PATH and each of its segments are marked 4-byte and the
\* message holds no AS4_PATH, whatever the message was before the call.
C6_RestoreAsPathResult ==
    (ops # <<>> /\ ops[Len(ops)].op = "restoreAsPath" /\ ops[Len(ops)].ret) =>
        /\ getAttrib(msg, AS_PATH).is_4b
        /\ \A i \in 1..Len(getAttrib(msg, AS_PATH).segs) : getAttrib(msg, AS_PATH).segs[i].is_4b
        /\ ~hasAttrib(msg, AS4_PATH)

OnlySequences(segs) == segs # <<>> /\ \A i \in 1..Len(segs) : segs[i].type = AS_SEQUENCE

NoAsn(segs, asn) == \A i \in 1..Len(segs) : \A k \in 1..Len(segs[i].value) : segs[i].value[k] # asn

\* C7: restoreAsPath walks the whole AS_PATH with one cursor over the ASNs of
\* the AS4_PATH's AS_SEQUENCE segments, not restarted per segment, so that
\* restoreAsPath(downgradeAsPath(p)) gives back p for every 4-byte AS_PATH p
\* of one or more AS_SEQUENCE segments. (Stated for the paths without the
\* ASN 65535, which downgradeAsPath narrows as C5 tells.)
C7_RestoreAfterDowngrade ==
    (/\ Ran(<<"downgradeAsPath", "restoreAsPath">>)
     /\ Is4bPathMsg(msg0)
     /\ OnlySequences(getAttrib(msg0, AS_PATH).segs)
     /\ NoAsn(getAttrib(msg0, AS_PATH).segs, 65535)) =>
        /\ ops[1].ret /\ ops[2].ret
        /\ getAttrib(msg, AS_PATH) = getAttrib(msg0, AS_PATH)

\* A 2-byte AS_PATH with the AS4_PATH that a downgrade of some 4-byte path
\* sends along with it.
IsDowngraded(m) ==
    /\ hasAttrib(m, AS_PATH) /\ As4PathCount(m) = 1
    /\ ~getAttrib(m, AS_PATH).is_4b
    /\ \A i \in 1..Len(getAttrib(m, AS4_PATH).segs) : getAttrib(m, AS4_PATH).segs[i].is_4b
    /\ getAttrib(m, AS_PATH).segs = TwoByteForm(getAttrib(m, AS4_PATH).segs)

\* C8: for every message x holding a 2-byte AS_PATH and a companion AS4_PATH,
\* restoreAsPath and then downgradeAsPath yield a message whose AS_PATH and
\* AS4_PATH are equal to those of x. (Stated for the x whose two attributes
\* agree, as a downgrade of a path of AS_SEQUENCE segments produces them.)
C8_DowngradeAfterRestore ==
    (/\ Ran(<<"restoreAsPath", "downgradeAsPath">>)
     /\ IsDowngraded(msg0)
     /\ OnlySequences(getAttrib(msg0, AS4_PATH).segs)) =>
        /\ ops[1].ret /\ ops[2].ret
        /\ getAttrib(msg, AS_PATH) = getAttrib(msg0, AS_PATH)
        /\ As4PathCount(msg) = 1
        /\ getAttrib(msg, AS4_PATH).segs = getAttrib(msg0, AS4_PATH).segs

\* C9: downgradeAggregator replaces an aggregator ASN >= 2^16 by 23456
\* (keeping smaller ASNs, 65535 included), marks the attribute 2-byte and
\* emits AS4_AGGREGATOR with the original address and ASN; restoreAggregator
\* recovers the ASN, marks the attribute 4-byte and removes AS4_AGGREGATOR, so
\* that restoreAggregator(downgradeAggregator(m)) has the attribute list of m.
C9_AggregatorRoundTrip ==
    (/\ Ran(<<"downgradeAggregator", "restoreAggregator">>)
     /\ hasAttrib(msg0, AGGREATOR) /\ getAttrib(msg0, AGGREATOR).is_4b
     /\ ~hasAttrib(msg0, AS4_AGGREGATOR)) =>
        /\ ops[1].ret /\ ops[2].ret
        /\ ~hasAttrib(msg, AS4_AGGREGATOR)
        /\ msg.path_attribute = msg0.path_attribute

(***************************************************************************)
(* Properties of the wire form.                                            *)
(***************************************************************************)
\* C4: UPDATE round-trip: for every well-formed UPDATE m and a large enough
\* buffer, write(m) returns n > 0, and parse of those n bytes succeeds and
\* yields the withdrawn routes, the attributes and the NLRI of m.
C4_UpdateRoundTrip ==
    /\ (cpc \in {"written", "parsed"} /\ csz = BufSz) => cret > 0
    /\ (cpc = "parsed" /\ csz = BufSz) =>
        /\ cparsed.ret = cret
        /\ cparsed.msg.withdrawn_routes = cmsg.withdrawn_routes
        /\ cparsed.msg.path_attribute = cmsg.path_attribute
        /\ cparsed.msg.nlri = cmsg.nlri

RECURSIVE RoutesSize(_)
\* The bytes a list of routes takes on the wire: per route its length byte
\* and the bytes of its prefix.
RoutesSize(routes) ==
    IF routes = <<>> THEN 0
    ELSE 1 + (routes[1].length + 7) \div 8 + RoutesSize(Tail(routes))

RECURSIVE AttribsSize(_)
AttribsSize(attrs) ==
    IF attrs = <<>> THEN 0
    ELSE writeAttrib(attrs[1], BufSz).ret + AttribsSize(Tail(attrs))

\* The full encoded size of an UPDATE: 2-byte withdrawn length, withdrawn
\* prefixes, 2-byte attribute length, attributes, NLRI prefixes.
EncodedSize(m) ==
    2 + RoutesSize(m.withdrawn_routes) + 2 + AttribsSize(m.path_attribute) + RoutesSize(m.nlri)

\* C20: write(to, buf_sz) returns -1 whenever buf_sz is smaller than the full
\* encoded size; whenever it returns n >= 0, n <= buf_sz, n is the encoded
\* size, and no byte at an offset >= buf_sz of the buffer was written.
C20_WriteRespectsBufSz ==
    cpc \in {"written", "parsed"} =>
        /\ csz < EncodedSize(cmsg) => cret = -1
        /\ cret >= 0 =>
              /\ cret <= csz
              /\ cret = EncodedSize(cmsg)
              /\ chigh <= csz

(***************************************************************************)
(* Properties of concurrent RIB calls.                                     *)
(***************************************************************************)
\* A thread that has scanned the vector and has its modification still to
\* make, or that stands before an erase or a push_back.
BetweenScanAndModify(t) ==
    \/ tpc[t] \in {"erase", "push_unlocked", "push", "withdraw", "discard"}
    \/ tpc[t] = "lock" /\ tcall[t].op = "insert"

\* C10: the RIB's own mutex serializes RIB calls: with two threads calling
\* insert/withdraw/discard on one RIB, every scan-then-modify of the entry
\* list happens under the mutex, so that no two inserts of one (src, route)
\* both find no entry and both append, and no erase runs beside another
\* mutation.
C10_MutexSerializes ==
    /\ \A t \in Threads : BetweenScanAndModify(t) => mtx = t
    /\ \A i, j \in 1..Len(crib.rib) : i # j => ~SameKey(crib.rib[i], crib.rib[j])

(***************************************************************************)
(* Properties of the parsers.                                              *)
(***************************************************************************)
\* The sections of a body of at least 4 bytes whose two length fields fit:
\* withdrawn routes, attribute list, NLRI.
WithdrawnLen(b) == Ntohs(SubSeq(b, 1, 2))
WithdrawnFits(b) == Len(b) >= 4 /\ WithdrawnLen(b) <= Len(b) - 4
WithdrawnOf(b) == SubSeq(b, 3, 2 + WithdrawnLen(b))
AttribLen(b) == Ntohs(SubSeq(b, 3 + WithdrawnLen(b), 4 + WithdrawnLen(b)))
AttribsFit(b) == WithdrawnFits(b) /\ AttribLen(b) + WithdrawnLen(b) + 4 <= Len(b)
AttribsOf(b) == SubSeq(b, 5 + WithdrawnLen(b), 4 + WithdrawnLen(b) + AttribLen(b))
NlriOf(b) == SubSeq(b, 5 + WithdrawnLen(b) + AttribLen(b), Len(b))

RECURSIVE RoutesWellFormed(_)
\* Every prefix length of the list is at most 32 and its prefix bytes lie
\* within the list.
RoutesWellFormed(l) ==
    \/ l = <<>>
    \/ /\ l[1] <= 32
       /\ 1 + (l[1] + 7) \div 8 <= Len(l)
       /\ RoutesWellFormed(SubSeq(l, 2 + (l[1] + 7) \div 8, Len(l)))

\* The attribute list ORIGIN, AS_PATH, NEXT_HOP in the session's ASN width.
MandatoryBytes(is_4b) ==
    OriginBytes(64, 1, 0) \o (IF is_4b THEN AsPath4Bytes ELSE AsPath2Bytes) \o NexthopBytes

ParseFailedWith(code, subcode) == pout.ret = -1 /\ pout.msg.err = <<code, subcode>>

\* C21: BgpUpdateMessage::parse reports the first fatal error and returns
\* -1: a body of less than 4 bytes gives (E_HEADER, E_LENGTH), a withdrawn
\* length exceeding the body (E_UPDATE, E_UNSPEC), an attribute-list length
\* exceeding the body (E_UPDATE, E_ATTR_LIST), a prefix length above 32 or
\* prefix bytes running past their section, in the withdrawn routes or in
\* the NLRI, (E_UPDATE, E_UNSPEC); and no byte beyond msg_sz is read.
C21_ParseErrors ==
    pop = "update" =>
        LET b == pin.bytes IN
        /\ pout.read <= Len(b)
        /\ Len(b) < 4 => ParseFailedWith(E_HEADER, E_LENGTH)
        /\ Len(b) >= 4 /\ ~WithdrawnFits(b) => ParseFailedWith(E_UPDATE, E_UNSPEC)
        /\ WithdrawnFits(b) /\ ~RoutesWellFormed(WithdrawnOf(b)) => ParseFailedWith(E_UPDATE, E_UNSPEC)
        /\ WithdrawnFits(b) /\ RoutesWellFormed(WithdrawnOf(b)) /\ ~AttribsFit(b)
              => ParseFailedWith(E_UPDATE, E_ATTR_LIST)
        /\ AttribsFit(b) /\ RoutesWellFormed(WithdrawnOf(b))
              /\ AttribsOf(b) = MandatoryBytes(pin.is_4b) /\ ~RoutesWellFormed(NlriOf(b))
              => ParseFailedWith(E_UPDATE, E_UNSPEC)

RECURSIVE RoutesOf(_)
\* The prefixes a well-formed route list encodes.
RoutesOf(l) ==
    IF l = <<>> THEN <<>>
    ELSE <<Route(SubSeq(l, 2, 1 + (l[1] + 7) \div 8), l[1])>>
         \o RoutesOf(SubSeq(l, 2 + (l[1] + 7) \div 8, Len(l)))

\* C22: the mandatory attributes are required only of an UPDATE that
\* carries NLRI: parse of an UPDATE with withdrawn routes only (attribute
\* length 0, no NLRI) succeeds and yields the withdrawn prefixes.
C22_WithdrawOnlyParses ==
    pop = "update" =>
        LET b == pin.bytes IN
        AttribsFit(b) /\ AttribLen(b) = 0 /\ NlriOf(b) = <<>>
            /\ WithdrawnOf(b) # <<>> /\ RoutesWellFormed(WithdrawnOf(b))
        => /\ pout.ret = Len(b)
           /\ pout.msg.withdrawn_routes = RoutesOf(WithdrawnOf(b))
           /\ pout.msg.nlri = <<>>

\* An attribute buffer whose header is whole and whose declared value lies
\* within the buffer; its value bytes.
HeaderFits(b) == Len(b) >= 3 /\ b[3] <= Len(b) - 3
ValueOf(b) == SubSeq(b, 4, 3 + b[3])
WellKnownFlags(b) == b[1] \div 128 = 0 /\ (b[1] \div 64) % 2 = 1

RECURSIVE SegsFit(_, _)
\* Every segment of the value has its two header bytes and its count times
\* w ASN bytes within the value.
SegsFit(v, w) ==
    \/ v = <<>>
    \/ /\ Len(v) >= 2
       /\ 2 + v[2] * w <= Len(v)
       /\ SegsFit(SubSeq(v, 3 + v[2] * w, Len(v)), w)

RECURSIVE SegCounts(_, _)
\* The segment counts of a value whose segments fit.
SegCounts(v, w) ==
    IF v = <<>> THEN <<>> ELSE <<v[2]>> \o SegCounts(SubSeq(v, 3 + v[2] * w, Len(v)), w)

\* C23: BgpPathAttribAsPath::parse, in 2-byte and in 4-byte mode and for
\* every segment count: a segment whose ASN bytes extend beyond value_len
\* is rejected with (E_UPDATE, E_AS_PATH) and no ASN of it is read; a value
\* whose segments fit is parsed into segments of the encoded counts and
\* parse returns value_len + 3.
C23_AsPathParse ==
    pop = "aspath" =>
        LET b == pin.bytes
            w == IF pin.is_4b THEN 4 ELSE 2
        IN HeaderFits(b) /\ b[2] = AS_PATH /\ WellKnownFlags(b) =>
              /\ ~SegsFit(ValueOf(b), w) =>
                    /\ pout.ret = -1 /\ pout.err = <<E_UPDATE, E_AS_PATH>>
                    /\ pout.read <= Len(b)
              /\ SegsFit(ValueOf(b), w) =>
                    /\ pout.ret = b[3] + 3
                    /\ [k \in 1..Len(pout.attr.segs) |-> Len(pout.attr.segs[k].value)]
                          = SegCounts(ValueOf(b), w)

\* A parser has run on a whole attribute header that declares a value
\* longer than the bytes behind it.
ValueOverruns == pop \in {"origin", "aspath", "unknow"} /\ Len(pin.bytes) >= 3 /\ ~HeaderFits(pin.bytes)

\* C24, as stated: an attribute whose header declares a value longer than
\* the bytes that remain behind the header fails to parse (-1) with
\* (E_UPDATE, E_ATTR_LEN), in every attribute parser.
C24_HeaderLengthAttrLen ==
    ValueOverruns => pout.ret = -1 /\ pout.err = <<E_UPDATE, E_ATTR_LEN>>

\* C24, amended: an attribute whose header declares a value longer than the
\* bytes that remain behind the header fails to parse (-1) with (E_UPDATE,
\* E_UNSPEC_UPDATE) and no error data, in every attribute parser.
C24_HeaderLengthError ==
    ValueOverruns => pout.ret = -1 /\ pout.err = <<E_UPDATE, E_UNSPEC_UPDATE>> /\ pout.data = <<>>

C24_Witness ==
    pop = "origin" /\ pin.bytes = <<64, 1, 1>> /\ pout.ret = -1 /\ pout.err = <<E_UPDATE, E_UNSPEC_UPDATE>>

\* The bytes of the attribute at the head of a buffer: header and value.
AttribBytes(b) == SubSeq(b, 1, 3 + b[3])

OriginFailedWith(subcode, b) ==
    pout.ret = -1 /\ pout.err = <<E_UPDATE, subcode>> /\ pout.data = AttribBytes(b)

\* C25: BgpPathAttribOrigin::parse: a well-formed ORIGIN (not optional,
\* transitive, length 1, value 0..2) in a buffer of at least 4 bytes is
\* parsed, sets origin and returns 4; an optional or non-transitive one
\* gives E_ATTR_FLAG, a length other than 1 E_ATTR_LEN, a value above 2
\* E_ORIGIN, each with the offending attribute's bytes as error data.
C25_OriginParse ==
    pop = "origin" =>
        LET b == pin.bytes IN
        HeaderFits(b) /\ b[2] = ORIGIN =>
            /\ WellKnownFlags(b) /\ b[3] = 1 /\ b[4] <= 2
                  => pout.ret = 4 /\ pout.attr.val = b[4]
            /\ ~WellKnownFlags(b) /\ b[3] = 1 /\ b[4] <= 2 => OriginFailedWith(E_ATTR_FLAG, b)
            /\ WellKnownFlags(b) /\ b[3] # 1 => OriginFailedWith(E_ATTR_LEN, b)
            /\ WellKnownFlags(b) /\ b[3] = 1 /\ b[4] > 2 => OriginFailedWith(E_ORIGIN, b)

\* Flags of an unrecognised attribute that make it a well-known one: not
\* optional, transitive.
UnknowWellKnown == {u \in UnknowBytes : WellKnownFlags(u)}

\* C26: an unrecognised attribute with optional = 0 and transitive = 1 is
\* rejected with (E_UPDATE, E_BAD_WELL_KNOWN); any other unrecognised
\* attribute parses, keeps its value bytes and consumes exactly its header
\* and value_len bytes, so that the attributes behind it in an UPDATE are
\* parsed as attributes of their own.
C26_UnknownAttribute ==
    /\ pop = "unknow" =>
          LET b == pin.bytes IN
          HeaderFits(b) /\ b[2] = 99 =>
              /\ WellKnownFlags(b) => pout.ret = -1 /\ pout.err = <<E_UPDATE, E_BAD_WELL_KNOWN>>
              /\ ~WellKnownFlags(b) => pout.ret = 3 + b[3] /\ pout.attr.value = ValueOf(b)
    /\ pop = "update" =>
          LET b == pin.bytes IN
          \A u \in UnknowBytes \ UnknowWellKnown :
              b = Body(<<>>, u \o MandatoryBytes(pin.is_4b), <<>>)
              => /\ pout.ret = Len(b)
                 /\ Len(pout.msg.path_attribute) = 4
                 /\ pout.msg.path_attribute[1].value = ValueOf(u)

\* Unrecognised attributes that are optional and transitive.
UnknowOptTrans == {u \in UnknowBytes : u[1] \div 128 = 1 /\ (u[1] \div 64) % 2 = 1}

\* C27: an unrecognised optional transitive attribute parsed from an UPDATE
\* is written back with the type code and the value bytes it came with and
\* with the partial flag set, whatever the flag was on input.
C27_UnknownWrittenPartial ==
    pop = "update" =>
        LET b == pin.bytes IN
        \A u \in UnknowOptTrans :
            b = Body(<<>>, u \o MandatoryBytes(pin.is_4b), <<>>)
            => /\ pout.ret = Len(b)
               /\ Len(pout.msg.path_attribute) >= 1
               /\ LET w == writeUnknow(pout.msg.path_attribute[1], Len(u)) IN
                  /\ w.ret = Len(u)
                  /\ w.bytes[2] = u[2]
                  /\ SubSeq(w.bytes, 3, Len(u)) = SubSeq(u, 3, Len(u))
                  /\ (w.bytes[1] \div 32) % 2 = 1

(***************************************************************************)
(* Properties of the attribute list and of AS_PATH prepending.             *)
(***************************************************************************)
\* No two attributes of the message have the same type code.
DistinctTypes(m) ==
    \A i, j \in 1..Len(m.path_attribute) :
        i # j => m.path_attribute[i].type_code # m.path_attribute[j].type_code

\* The attributes of the message that have the type code.
OfType(m, type) == {i \in 1..Len(m.path_attribute) : m.path_attribute[i].type_code = type}

\* What the call made in this step has to have done.
C28_Step ==
    Len(ops') = Len(ops) + 1 =>
        LET o == ops'[Len(ops')] IN
        /\ o.op = "addAttrib" /\ hasAttrib(msg, o.arg.type_code) => ~o.ret /\ msg' = msg
        /\ o.op = "updateAttribute" =>
              /\ Cardinality(OfType(msg', o.arg.type_code)) = 1
              /\ getAttrib(msg', o.arg.type_code) = o.arg

\* C28: starting from attributes of pairwise distinct type codes, after any
\* sequence of addAttrib, updateAttribute, dropAttrib, setNextHop, prepend,
\* restoreAsPath, downgradeAsPath, restoreAggregator and downgradeAggregator
\* every type code appears at most once in the list; addAttrib of a type
\* that is present returns false and leaves the list unchanged;
\* updateAttribute leaves exactly one attribute of the type, equal to the
\* one given.
C28_UniqueTypeCodes == [](ops # <<>> => DistinctTypes(msg)) /\ [][C28_Step]_vars

C28_Witness ==
    /\ Len(ops) = 2 /\ DistinctTypes(msg)
    /\ ops[1].op = "updateAttribute" /\ ops[1].arg = BgpPathAttribOrigin(INCOMPLETE)
    /\ ops[2].op = "addAttrib" /\ ~ops[2].ret
    /\ Cardinality(OfType(msg, ORIGIN)) = 1 /\ getAttrib(msg, ORIGIN) = BgpPathAttribOrigin(INCOMPLETE)

\* The segments of the message's AS_PATH (none without the attribute).
PathSegs(m) == IF hasAttrib(m, AS_PATH) THEN getAttrib(m, AS_PATH).segs ELSE <<>>

\* A first segment that is an AS_SEQUENCE holding the most a segment takes.
FirstSeqFull(m) ==
    /\ PathSegs(m) # <<>>
    /\ PathSegs(m)[1].type = AS_SEQUENCE
    /\ Len(PathSegs(m)[1].value) = MaxSegAsns

\* What a prepend made in this step has to have done to a full segment.
C29_Step ==
    Len(ops') = Len(ops) + 1 /\ FirstSeqFull(msg) =>
        LET o == ops'[Len(ops')] IN
        /\ o.op = "prepend" /\ o.ret =>
              /\ Len(PathSegs(msg')) = Len(PathSegs(msg)) + 1
              /\ PathSegs(msg')[1] = PathSegs(msg)[1]
              /\ \E k \in 1..Len(PathSegs(msg')) :
                    /\ PathSegs(msg')[k].type = AS_SEQUENCE
                    /\ Len(PathSegs(msg')[k].value) = 1
        /\ o.op = "prependSeg" => ~o.ret /\ msg' = msg

\* C29: no AS_PATH segment ever holds more than 255 ASNs after any sequence
\* of prepend calls; prepend onto an AS_PATH whose first segment is an
\* AS_SEQUENCE of 255 ASNs starts a new AS_SEQUENCE segment instead of
\* growing it; the segment's own prepend on a full segment returns false
\* and leaves it unchanged.
C29_SegmentLimit ==
    /\ [](ops # <<>> => \A k \in 1..Len(PathSegs(msg)) : Len(PathSegs(msg)[k].value) <= 255)
    /\ [][C29_Step]_vars

C29_Witness ==
    /\ Len(ops) = 2 /\ FirstSeqFull(msg0) /\ FirstSeqFull(msg)
    /\ ops[1].op = "prepend" /\ ops[1].ret
    /\ ops[2].op = "prependSeg" /\ ~ops[2].ret
    /\ Len(PathSegs(msg)) = Len(PathSegs(msg0)) + 1

(***************************************************************************)
(* Properties of the local inserts that notify a route event bus.          *)
(***************************************************************************)
\* What a local insert with a bus has to have published in this step: the
\* entries it stored are those rib' has behind rib.
C30_Step ==
    lastop'.op \in {"insert_local_bus", "insert_local_batch_bus"} =>
        LET stored == SubSeq(rib', Len(rib) + 1, Len(rib')) IN
        IF stored = <<>> THEN bus' = bus
        ELSE /\ Len(bus') = Len(bus) + 1
             /\ SubSeq(bus', 1, Len(bus)) = bus
             /\ LET e == bus'[Len(bus')] IN
                /\ e.publisher = NullPtr
                /\ e.event.type = "add"
                /\ e.event.routes = [k \in 1..Len(stored) |-> stored[k].route]
                /\ \A k \in 1..Len(stored) : stored[k].attribs = e.event.attribs
                /\ \A k \in 1..Len(stored) : \E i \in 1..Len(e.rib) : e.rib[i] = stored[k]

\* C30: a local insert that is handed a route event bus publishes, with a
\* NULL publisher, exactly one route-add event per call that stored at
\* least one entry, carrying exactly the routes stored and their
\* attributes; it publishes nothing when no entry was stored; the event is
\* published when the entries are already in the RIB.
C30_LocalInsertPublishes == [][C30_Step]_vars

C30_Witness ==
    /\ lastop.op = "insert_local_batch_bus" /\ Len(lastop.ret) = 2
    /\ Len(bus) = 1
    /\ bus[1].event.routes = <<R0, R1>> /\ bus[1].publisher = NullPtr
    /\ \E i, j \in 1..Len(bus[1].rib) : bus[1].rib[i].route = R0 /\ bus[1].rib[j].route = R1

(***************************************************************************)
(* Properties of the AS_PATH prepend.                                      *)
(***************************************************************************)
\* The ASNs of a list of segments, front to back.
RECURSIVE AsnsOf(_)
AsnsOf(segs) == IF segs = <<>> THEN <<>> ELSE Head(segs).value \o AsnsOf(Tail(segs))

\* What a prepend on the AS_PATH made in this step has to have done when it
\* returned true.
C37_Step ==
    Len(ops') = Len(ops) + 1 /\ ops'[Len(ops')].op = "prependAsPath" /\ ops'[Len(ops')].ret =>
        LET a == getAttrib(msg, AS_PATH)
            b == getAttrib(msg', AS_PATH)
            asn == ops'[Len(ops')].arg
            front == IF ~a.is_4b /\ asn > 65535 THEN 23456 ELSE asn
        IN /\ b.segs # <<>>
           /\ b.segs[1].type = AS_SEQUENCE
           /\ b.segs[1].value # <<>> /\ b.segs[1].value[1] = front
           /\ AsnsOf(b.segs) = <<front>> \o AsnsOf(a.segs)
           /\ \/ b.segs = <<BgpAsPathSegment(a.is_4b, AS_SEQUENCE, <<front>>)>> \o a.segs
              \/ /\ a.segs # <<>>
                 /\ b.segs = [a.segs EXCEPT ![1].value = <<front>> \o @]

\* C37: AS_PATH prepend(asn) puts the ASN at the front of the path: after it
\* returns true the first segment is an AS_SEQUENCE whose first ASN is asn
\* (23456 in a 2-byte path when asn > 65535) and the earlier segments and
\* ASNs follow in their original order, also when the former first segment
\* was an AS_SET or a full AS_SEQUENCE and a new segment is created.
C37_PrependAtFront == [][C37_Step]_vars

(***************************************************************************)
(* Properties of the update groups of the RIB.                             *)
(***************************************************************************)
\* C38: update groups are homogeneous: in every reachable RIB state any two
\* entries with the same update_id have the same src_router_id, the same
\* nexthops and value-equal attribute lists, also when entries with
\* src_router_id 0 were inserted through the peer insert before a local
\* insert.
C38_HomogeneousGroups ==
    \A i, j \in 1..Len(rib) :
        rib[i].update_id = rib[j].update_id =>
            /\ rib[i].src_router_id = rib[j].src_router_id
            /\ rib[i].nexthop_global = rib[j].nexthop_global
            /\ rib[i].nexthop_linklocal = rib[j].nexthop_linklocal
            /\ rib[i].attribs = rib[j].attribs

(***************************************************************************)
(* Properties of the UPDATE-level prepend and of the ASN-width transforms. *)
(***************************************************************************)
\* The first ASN of a list of segments (0: there is none).
FirstAsn(segs) == IF AsnsOf(segs) = <<>> THEN 0 ELSE AsnsOf(segs)[1]

\* What a prepend on the message made in this step has to have done.
C39_Step ==
    Len(ops') = Len(ops) + 1 /\ ops'[Len(ops')].op = "prepend" =>
        LET o == ops'[Len(ops')]
            two_byte_path == hasAttrib(msg, AS_PATH) /\ ~getAttrib(msg, AS_PATH).is_4b
            four_byte_path == hasAttrib(msg, AS_PATH) /\ getAttrib(msg, AS_PATH).is_4b
        IN /\ msg.use_4b_asn /\ (hasAttrib(msg, AS4_PATH) \/ two_byte_path) => ~o.ret /\ msg' = msg
           /\ ~msg.use_4b_asn /\ four_byte_path => ~o.ret /\ msg' = msg
           /\ ~msg.use_4b_asn /\ o.arg >= 65536 /\ hasAttrib(msg, AS4_PATH) /\ o.ret =>
                 /\ hasAttrib(msg', AS_PATH) /\ hasAttrib(msg', AS4_PATH)
                 /\ FirstAsn(getAttrib(msg', AS_PATH).segs) = 23456
                 /\ FirstAsn(getAttrib(msg', AS4_PATH).segs) = o.arg
                 /\ LET r == restoreAsPath(msg')
                    IN r.ret /\ FirstAsn(getAttrib(r.msg, AS_PATH).segs) = o.arg

\* C39: UPDATE-level prepend(asn) keeps the session's ASN width: in 4-byte
\* mode it returns false and leaves the message unchanged when an AS4_PATH
\* is present or the existing AS_PATH is 2-byte; in 2-byte mode it returns
\* false and leaves the message unchanged when the existing AS_PATH is
\* 4-byte; in 2-byte mode with asn >= 2^16 and an AS4_PATH present, a
\* successful prepend puts 23456 at the front of AS_PATH and the real asn at
\* the front of AS4_PATH, so that restoreAsPath then yields asn as the
\* first ASN.
C39_PrependKeepsWidth == [][C39_Step]_vars

\* What a transform of the AS_PATH made in this step has to have left alone
\* when it returned false.
C40_Step ==
    /\ Len(ops') = Len(ops) + 1
    /\ ops'[Len(ops')].op \in {"restoreAsPath", "downgradeAsPath"}
    /\ ~ops'[Len(ops')].ret
    => msg'.path_attribute = msg.path_attribute

\* C40: the ASN-width transforms are all-or-nothing: whenever restoreAsPath
\* or downgradeAsPath returns false (a segment whose width flag contradicts
\* its attribute), the message's attribute list, AS_PATH and AS4_PATH
\* included, is exactly as before the call.
C40_TransformsAllOrNothing == [][C40_Step]_vars

(***************************************************************************)
(* Properties of the session FSM.                                          *)
(***************************************************************************)
\* What an entry point that ran on the session in this step has to have
\* done for the handshake.
C31_Step ==
    LET s == fsm[1]
        t == fsm'[1]
        e == t.ev
    IN  /\ e.op = "start" /\ s.state = IDLE /\ e.ok =>
              t.state = OPEN_SENT /\ t.out = <<openOf(s)>>
        /\ e.op = "run" /\ s.state = OPEN_SENT /\ e.msg.type = "OPEN"
              /\ e.msg.asn = s.config.peer_asn /\ e.ok =>
              t.state = OPEN_CONFIRM /\ t.out = <<BgpKeepaliveMessage>>
        /\ e.op = "run" /\ s.state = OPEN_CONFIRM /\ e.msg.type = "KEEPALIVE" =>
              t.state = ESTABLISHED
        /\ t.state = ESTABLISHED /\ s.state # ESTABLISHED =>
              s.state = OPEN_CONFIRM /\ e.op = "run" /\ e.msg.type = "KEEPALIVE"
        /\ rib' # rib => s.state = ESTABLISHED /\ e.op = "run" /\ e.msg.type = "UPDATE"

\* C31: the handshake order of the session FSM: from IDLE, start moves to
\* OPEN_SENT and sends an OPEN; a valid OPEN received in OPEN_SENT moves to
\* OPEN_CONFIRM and sends a KEEPALIVE; a KEEPALIVE received in OPEN_CONFIRM
\* moves to ESTABLISHED.  ESTABLISHED is entered only from OPEN_CONFIRM on a
\* KEEPALIVE, never directly from IDLE or OPEN_SENT, and an UPDATE changes
\* the RIB only while the session is ESTABLISHED.
C31_HandshakeOrder == fsm[1].state = IDLE /\ [][C31_Step]_vars

\* An established session has taken a route from an UPDATE.
C31_Witness ==
    /\ fsm[1].state = ESTABLISHED /\ fsm[1].ev.from = ESTABLISHED
    /\ fsm[1].ev.op = "run" /\ fsm[1].ev.msg = BgpUpdate(FALSE)
    /\ rib # <<>>

\* What an entry point that ran on the session in this step has to have
\* done on a failure.
C32_Step ==
    LET s == fsm[1]
        t == fsm'[1]
        e == t.ev
    IN  /\ e.op = "run" /\ s.state = OPEN_SENT /\ e.msg.type \notin {"OPEN", "BAD"} =>
              t.state = IDLE /\ t.out = <<BgpNotificationMessage(E_FSM, E_OPEN_SENT)>>
        /\ e.op = "run" /\ s.state \in {IDLE, OPEN_SENT} /\ e.msg.type = "OPEN"
              /\ e.msg.asn # s.config.peer_asn =>
              t.state = IDLE /\ t.out = <<BgpNotificationMessage(E_OPEN, E_PEER_AS)>>
        /\ e.op = "run" /\ e.msg.type = "BAD" =>
              t.state = IDLE /\ t.out = <<BgpNotificationMessage(e.msg.code, e.msg.subcode)>>
        /\ t.out # <<>> /\ ~e.ok => t.state = IDLE
        /\ \A k \in 1..Len(t.out) :
              t.out[k].type = "NOTIFICATION" => t.state = IDLE /\ Len(t.out) = 1

\* C32: every failure drives the session to IDLE with one NOTIFICATION: in
\* OPEN_SENT any message other than OPEN gives (E_FSM, E_OPEN_SENT); an OPEN
\* whose ASN differs from the configured peer_asn gives (E_OPEN, E_PEER_AS);
\* a parser error in any state gives the parser's code and subcode; an
\* output handler returning false also drives the FSM to IDLE.
C32_FailuresGoIdle == [][C32_Step]_vars

\* A started session was sent an OPEN with ASN 65002 while it expects 65001.
C32_Witness ==
    /\ fsm[1].ev.op = "run" /\ fsm[1].ev.msg = BgpOpenMessage(65002, 3, PeerId)
    /\ fsm[1].ev.from = OPEN_SENT
    /\ fsm[1].state = IDLE
    /\ fsm[1].out = <<BgpNotificationMessage(E_OPEN, E_PEER_AS)>>

\* What stop, and a tick on a stopped session, have to have done in this step.
C33_Step ==
    LET s == fsm[1]
        t == fsm'[1]
        e == t.ev
    IN  /\ e.op = "stop" =>
              /\ t.state = IDLE
              /\ t.hold_deadline = NoTimer /\ t.keepalive_deadline = NoTimer
        /\ e.op = "stop" /\ s.ev.op = "stop" =>
              /\ [t EXCEPT !.ev = s.ev] = s
              /\ rib' = rib /\ update_id' = update_id /\ now' = now
        /\ e.op = "tick" /\ s.state = IDLE => t.state = IDLE /\ t.out = <<>>

\* C33: stop() from any state leaves the session in IDLE with no pending
\* hold or keepalive timer, also when the NOTIFICATION (E_CEASE, E_SHUTDOWN)
\* cannot be written; a second stop() leaves the state IDLE and changes
\* nothing else; after stop no later tick fires a hold-timer expiry.
C33_StopContract ==
    /\ [](fsm[1].state = IDLE =>
             fsm[1].hold_deadline = NoTimer /\ fsm[1].keepalive_deadline = NoTimer)
    /\ [][C33_Step]_vars

\* An established session with a running hold timer was stopped while its
\* output handler refused the NOTIFICATION.
C33_Witness ==
    /\ fsm[1].ev.op = "stop" /\ fsm[1].ev.from = ESTABLISHED /\ ~fsm[1].ev.ok
    /\ fsm[1].config.hold_timer > 0 /\ now > 0
    /\ fsm[1].state = IDLE /\ fsm[1].hold_deadline = NoTimer

\* What the timers of the session have to have done in this step.
C34_Step ==
    LET s == fsm[1]
        t == fsm'[1]
        e == t.ev
        expired == BgpNotificationMessage(E_HOLD, 0)
    IN  /\ e.op = "run" /\ e.msg.type = "OPEN" /\ t.state = OPEN_CONFIRM =>
              t.hold_time = Min(s.config.hold_timer, e.msg.hold_time)
        /\ e.op = "run" /\ e.msg.type = "KEEPALIVE" /\ s.state = OPEN_CONFIRM /\ s.hold_time > 0 =>
              t.keepalive_deadline = now + (s.hold_time \div 3)
        /\ e.op = "run" /\ e.msg.type = "KEEPALIVE" /\ t.state = ESTABLISHED /\ t.hold_time > 0 =>
              t.hold_deadline = now + t.hold_time
        /\ e.op = "tick" /\ s.state = ESTABLISHED /\ s.hold_time > 0
              /\ now' >= s.hold_deadline =>
              t.state = IDLE /\ t.out = <<expired>>
        /\ e.op = "tick" /\ s.state = ESTABLISHED /\ s.hold_time > 0
              /\ now' < s.hold_deadline =>
              t.state = IDLE \/ (t.state = ESTABLISHED /\ t.hold_deadline = s.hold_deadline)
        /\ (\E k \in 1..Len(t.out) : t.out[k] = expired) =>
              /\ e.op = "tick" /\ s.state = ESTABLISHED /\ s.hold_time > 0
              /\ now' >= s.hold_deadline

\* C34: the session hold time is min(local hold_timer, peer hold time) and
\* the keepalive interval is hold/3; in ESTABLISHED with hold time H > 0,
\* when ticks have advanced time by H seconds since the last KEEPALIVE the
\* FSM emits NOTIFICATION (E_HOLD, 0) and goes to IDLE; every received
\* KEEPALIVE restarts the H-second window; with hold time 0 the hold timer
\* never expires.
C34_HoldTimer ==
    /\ [](fsm[1].state = ESTABLISHED =>
             IF fsm[1].hold_time > 0
             THEN /\ fsm[1].hold_deadline # NoTimer
                  /\ now < fsm[1].hold_deadline
                  /\ fsm[1].hold_deadline <= now + fsm[1].hold_time
             ELSE fsm[1].hold_deadline = NoTimer)
    /\ [][C34_Step]_vars

\* An established session with a local hold_timer of 3 has let its hold
\* window pass.
C34_Witness ==
    /\ fsm[1].ev.op = "tick" /\ fsm[1].ev.from = ESTABLISHED
    /\ fsm[1].config.hold_timer = 3 /\ now >= 3
    /\ fsm[1].state = IDLE
    /\ fsm[1].out = <<BgpNotificationMessage(E_HOLD, 0)>>

(***************************************************************************)
(* Properties of the route event bus.                                      *)
(***************************************************************************)
\* The subscribers other than the publisher, in subscription order.
C36_Others(sb, publisher) == SelectSeq(sb, LAMBDA x : x # publisher)

\* The handler calls the step has added.
C36_NewCalls == SubSeq(delivered', Len(delivered) + 1, Len(delivered'))

\* The events receiver r's handler was called with, oldest first.
C36_EventsTo(r) ==
    LET calls == SelectSeq(delivered, LAMBDA c : c.to = r)
    IN  [k \in 1..Len(calls) |-> calls[k].event]

\* a is b with some of its elements left out.
RECURSIVE C36_IsSubSeq(_, _)
C36_IsSubSeq(a, b) ==
    IF a = <<>> THEN TRUE
    ELSE IF b = <<>> THEN FALSE
    ELSE IF Head(a) = Head(b) THEN C36_IsSubSeq(Tail(a), Tail(b))
    ELSE C36_IsSubSeq(a, Tail(b))

\* Each receiver has got its events in the order they were published.
C36_InOrder ==
    \A r \in Receivers :
        C36_IsSubSeq(C36_EventsTo(r), [k \in 1..Len(bus) |-> bus[k].event])

\* Calls are made by publish only, before it returns, and they stay.
C36_Synchronous ==
    /\ Len(delivered') >= Len(delivered)
    /\ SubSeq(delivered', 1, Len(delivered)) = delivered
    /\ Len(bus') = Len(bus) => delivered' = delivered

C36_StepAll ==
    /\ C36_Synchronous
    /\ Len(bus') = Len(bus) + 1 =>
         LET e == bus'[Len(bus')]
             others == C36_Others(subs, e.publisher)
         IN  /\ Len(C36_NewCalls) = Len(others)
             /\ \A k \in 1..Len(others) :
                  C36_NewCalls[k].to = others[k] /\ C36_NewCalls[k].event = e.event

\* C36 as stated: publish(publisher, event) calls the handler of every
\* current subscriber other than the publisher, in subscription order and
\* before it returns, never the publisher's and never that of a receiver
\* that has unsubscribed; each receiver gets its events in publication order.
C36_DeliveryToAll == []C36_InOrder /\ [][C36_StepAll]_vars

C36_Step ==
    /\ C36_Synchronous
    /\ Len(bus') = Len(bus) + 1 =>
         LET e == bus'[Len(bus')]
             others == C36_Others(subs, e.publisher)
             n == Len(C36_NewCalls)
             ended(k) == e.event.type = "collision" /\ C36_NewCalls[k].consumed
         IN  /\ n <= Len(others)
             /\ \A k \in 1..n :
                  C36_NewCalls[k].to = others[k] /\ C36_NewCalls[k].event = e.event
             /\ \A k \in 1..(n - 1) : ~ended(k)
             /\ n < Len(others) => n > 0 /\ ended(n)

\* C36, amended: publish(publisher, event) calls the handlers of the current
\* subscribers other than the publisher, in subscription order and before it
\* returns, never the publisher's and never that of a receiver that has
\* unsubscribed; it calls all of them, except that a collision probe goes no
\* further than the first handler that returns true; each receiver gets its
\* events in publication order.
C36_Delivery == []C36_InOrder /\ [][C36_Step]_vars

\* Three subscribers, the first of them publishes a collision probe, the
\* second reports it handled, the third is not called.
C36_Witness ==
    /\ Len(subs) = 3
    /\ Len(bus) = 1
    /\ bus[1].event.type = "collision"
    /\ bus[1].publisher = subs[1]
    /\ Len(delivered) = 1
    /\ delivered[1].to = subs[2]
    /\ delivered[1].consumed

(***************************************************************************)
(* Properties of collision resolution.                                     *)
(***************************************************************************)
C35_Up(s) == s.state \in {OPEN_CONFIRM, ESTABLISHED}

\* Identifier a is below b as an unsigned 32-bit number.
C35_Lower(a, b) == a[1] < b[1] \/ (a[1] = b[1] /\ a[2] < b[2])

\* Session r is in IDLE and the last thing it sent is NOTIFICATION
\* (E_CEASE, E_COLLISION).
C35_Lost(s) == s.state = IDLE /\ s.out = <<BgpNotificationMessage(E_CEASE, E_COLLISION)>>

\* Both sessions have collision detection enabled.
C35_Enabled == \A r \in {1, 2} : ~fsm[r].config.no_collision_detection

\* Session i has published a probe for the peer its sibling j is up with,
\* and the output handler has taken what i wrote.
C35_Probed(i, j) ==
    /\ Len(bus') = Len(bus) + 1
    /\ bus'[Len(bus')].publisher = i
    /\ C35_Up(fsm[j])
    /\ fsm[j].peer_bgp_id = bus'[Len(bus')].event.peer_bgp_id
    /\ fsm'[i].ev.ok

C35_Step ==
    \A i \in {1, 2} :
        LET j == 3 - i IN
        C35_Enabled /\ C35_Probed(i, j) =>
            /\ \/ C35_Up(fsm'[i]) /\ C35_Lost(fsm'[j])
               \/ C35_Up(fsm'[j]) /\ C35_Lost(fsm'[i])
            /\ C35_Lower(fsm[i].config.router_id, fsm[j].config.router_id) => C35_Up(fsm'[i])
            /\ C35_Lower(fsm[j].config.router_id, fsm[i].config.router_id) => C35_Up(fsm'[j])

\* Two siblings with collision detection are never both up with one peer.
C35_NeverBothUp ==
    C35_Enabled =>
        ~(C35_Up(fsm[1]) /\ C35_Up(fsm[2]) /\ fsm[1].peer_bgp_id = fsm[2].peer_bgp_id)

\* C35: when a session with collision detection receives an OPEN from the
\* peer its sibling, also with collision detection, is up with, then after
\* its probe is handled exactly one of the two is up, the other is in IDLE
\* and has sent NOTIFICATION (E_CEASE, E_COLLISION); if their local BGP
\* identifiers differ, the one that is up has the lower one as an unsigned
\* 32-bit number; two such sessions are never both up with one peer.
C35_CollisionResolution == []C35_NeverBothUp /\ [][C35_Step]_vars

\* The second session, whose identifier has the top bit set, received the
\* OPEN of the peer the first was up with, and lost: it is in IDLE behind its
\* NOTIFICATION, the first is still up.
C35_Witness ==
    /\ C35_Enabled
    /\ fsm[2].config.router_id = <<32768, 0>>
    /\ fsm[2].ev.op = "run"
    /\ fsm[2].ev.msg = BgpOpenMessage(65001, 3, PeerId)
    /\ fsm[2].ev.from = OPEN_SENT
    /\ C35_Lost(fsm[2])
    /\ C35_Up(fsm[1])
    /\ fsm[1].peer_bgp_id = PeerId

=============================================================================
